---------------------------- MODULE Spec2Model ----------------------------
(***************************************************************************)
(* A model of kfme: the binary codec of `.kfm` source files               *)
(* (src/src/source.rs, src/src/kfm.rs) and the patch engine that edits    *)
(* the id-keyed view of a source file (src/src/patch.rs).                 *)
(*                                                                         *)
(* Conventions.  Option<T> is a sequence of length at most one: None is   *)
(* << >> and Some(x) is << x >>.  A string is the sequence of its UTF-8   *)
(* bytes.  A 32-bit field (u32, i32, f32) is held as the signed integer   *)
(* with the same bit pattern, so that a u32 of 2^31 or more is held as    *)
(* that value minus 2^32; the codec copies the pattern unchanged.          *)
(* A decoder returns [ok, val, rest]: whether it succeeded,   *)
(* the value, and the bytes it left unread.  An encoder returns [ok, out]:*)
(* whether it succeeded and the bytes it wrote until it returned.         *)
(***************************************************************************)
EXTENDS Integers, Sequences, FiniteSets, TLC

VARIABLES
    \* ---- codec round trip (SpecFile) ----
    disk,       \* the bytes of the .kfm file being read
    src_file,   \* Option<SourceFile>: what from_kfm_reader made of disk
    written,    \* the [ok, out] result of to_kfm_writer(src_file)
    reread,     \* the [ok, val, rest] result of from_kfm_reader(written.out)
    cstage,     \* "start", "loaded", "saved", "reloaded", "rejected", "off"
    \* ---- single edges through the codec (SpecTran) ----
    tran_in,    \* the sequence of Transitions handed to the encoder
    tran_le,    \* the byte order: TRUE for little-endian
    tran_out,   \* the [ok, out] result of encoding tran_in
    tran_back,  \* the [ok, val, rest] result of decoding tran_out.out
    tstage,     \* "start", "encoded", "decoded", "off"
    \* ---- patch engine (Spec) ----
    m_src,      \* the MappedSource being patched
    m_src0,     \* the MappedSource handed to apply
    m_prev,     \* the MappedSource before the instruction applied last
    patch_file, \* PatchFile.anims: the top-level instructions, in file order
    pc,         \* number of instructions apply has taken from patch_file
    result,     \* "running", "ok", "err", "off"
    error,      \* the message of the error apply returned, or "none"
    \* ---- Graph <-> Indexed View (SpecView, and Unmap of Spec) ----
    graph,      \* the SourceFileBody handed to MappedSource::try_from
    mapped,     \* the [ok, val] result of MappedSource::try_from(graph)
    unmapped,   \* Option<SourceFileBody>: SourceFileBody::from of a view
    remapped,   \* the [ok, val] result of MappedSource::try_from(unmapped)
    vstage,     \* "start", "mapped", "rejected", "unmapped", "remapped", "off"
    \* ---- selector resolution (SpecMatch) ----
    available,  \* the ids handed to collect_matching_ids
    selector,   \* the selector handed to collect_matching_ids
    matching,   \* the ids collect_matching_ids returned
    mstage,     \* "start", "collected", "off"
    \* ---- the patch command (SpecPatch) ----
    patch_disk, \* Option<PatchFile>: what PatchFile::load made of the patch file
    disk0,      \* the bytes of the source file when the command starts
    cmd,        \* where on_patch is: "load source", "load patch", "map",
                \* "patch", "save", "ok", "err", "panic", "off"
    \* ---- single values through their encoder or decoder (SpecWire) ----
    wire_type,  \* what is coded: "str", "kind", "defaults", "bytes", "code", "seq"
    wire_in,    \* the value handed to the encoder, or the bytes handed to the decoder
    wire_le,    \* the byte order: TRUE for little-endian
    wire_out,   \* the [ok, out] result of the encoder
    wire_back,  \* the [ok, val, rest] result of the decoder
    wstage,     \* "start", "encoded", "decoded", "off"
    \* ---- the text form of a selector (SpecYaml) ----
    yaml_in,    \* the RegexOr<u32> handed to serialize, or the Value handed to deserialize
    yaml_text,  \* the Value serialize made
    yaml_back,  \* the outcome of deserialize
    ystage      \* "start", "text", "serialized", "deserialized", "off"

codec_vars == <<disk, src_file, written, reread, cstage>>
tran_vars  == <<tran_in, tran_le, tran_out, tran_back, tstage>>
patch_vars == <<m_src, m_src0, m_prev, patch_file, pc, result, error>>
view_vars == <<graph, mapped, unmapped, remapped, vstage>>
match_vars == <<available, selector, matching, mstage>>
cmd_vars == <<patch_disk, disk0, cmd>>
wire_vars == <<wire_type, wire_in, wire_le, wire_out, wire_back, wstage>>
yaml_vars == <<yaml_in, yaml_text, yaml_back, ystage>>
vars == <<codec_vars, tran_vars, patch_vars, view_vars, match_vars, cmd_vars,
          wire_vars, yaml_vars>>

None == << >>
Some(x) == << x >>

-----------------------------------------------------------------------------
(* Primitive codec                                                         *)

Fail(rest) == [ok |-> FALSE, val |-> << >>, rest |-> rest]
Ok(v, rest) == [ok |-> TRUE, val |-> v, rest |-> rest]

Wrote(bytes) == [ok |-> TRUE, out |-> bytes]
WriteErr == [ok |-> FALSE, out |-> << >>]

\* The one element of a singleton set: used to evaluate a result once.
The(S) == CHOOSE x \in S : TRUE

\* `let x = r?; K(x)`: a failed read ends the enclosing decoder.
Try(r, K(_)) == The({IF x.ok THEN K(x) ELSE Fail(x.rest) : x \in {r}})

\* `a?; b`: b writes after a unless a failed.
Then(a, b) ==
    The({IF ~x.ok THEN x
         ELSE The({[ok |-> y.ok, out |-> x.out \o y.out] : y \in {b}}) : x \in {a}})

Reverse(s) == [i \in 1..Len(s) |-> s[Len(s) + 1 - i]]

write_u8(v) == Wrote(<<v % 256>>)

U32Bytes(v, le) ==
    LET lsb == << v % 256, (v \div 256) % 256,
                  (v \div 65536) % 256, (v \div 16777216) % 256 >>
    IN  IF le THEN lsb ELSE Reverse(lsb)

write_u32(v, le) == Wrote(U32Bytes(v, le))

read_u8(b) == IF Len(b) < 1 THEN Fail(b) ELSE Ok(b[1], Tail(b))

\* The most significant byte carries the sign of the held integer.
TopByte(x) == IF x >= 128 THEN x - 256 ELSE x

read_u32(b, le) ==
    IF Len(b) < 4 THEN Fail(b)
    ELSE LET v == IF le
                  THEN b[1] + 256 * b[2] + 65536 * b[3] + 16777216 * TopByte(b[4])
                  ELSE b[4] + 256 * b[3] + 65536 * b[2] + 16777216 * TopByte(b[1])
         IN  Ok(v, SubSeq(b, 5, Len(b)))

\* A count or length of 2^31 or more (held negative) exceeds every input.
TooLong(n, b) == n < 0 \/ Len(b) < n

is_ascii(s) == \A i \in 1..Len(s) : s[i] < 128

IsCont(s, i) == i <= Len(s) /\ s[i] >= 128 /\ s[i] <= 191

\* String::from_utf8 accepts the well-formed sequences of one to four bytes.
RECURSIVE Utf8From(_, _)
Utf8From(s, i) ==
    IF i > Len(s) THEN TRUE
    ELSE IF s[i] < 128 THEN Utf8From(s, i + 1)
    ELSE IF s[i] >= 194 /\ s[i] <= 223
         THEN IsCont(s, i + 1) /\ Utf8From(s, i + 2)
    ELSE IF s[i] >= 224 /\ s[i] <= 239
         THEN /\ IsCont(s, i + 1) /\ IsCont(s, i + 2)
              /\ (s[i] = 224 => s[i + 1] >= 160)
              /\ (s[i] = 237 => s[i + 1] <= 159)
              /\ Utf8From(s, i + 3)
    ELSE IF s[i] >= 240 /\ s[i] <= 244
         THEN /\ IsCont(s, i + 1) /\ IsCont(s, i + 2) /\ IsCont(s, i + 3)
              /\ (s[i] = 240 => s[i + 1] >= 144)
              /\ (s[i] = 244 => s[i + 1] <= 143)
              /\ Utf8From(s, i + 4)
    ELSE FALSE

from_utf8_ok(s) == Utf8From(s, 1)

\* A reader that hands out the bytes there are when fewer than declared follow.
read_u32_len_str_short(b, le) ==
    Try(read_u32(b, le), LAMBDA len :
        LET n == IF TooLong(len.val, len.rest) THEN Len(len.rest) ELSE len.val
            buf == SubSeq(len.rest, 1, n)
            rest == SubSeq(len.rest, n + 1, Len(len.rest))
        IN  IF from_utf8_ok(buf) THEN Ok(buf, rest) ELSE Fail(rest))

read_u32_len_str(b, le) ==
    Try(read_u32(b, le), LAMBDA len :
        IF TooLong(len.val, len.rest) THEN Fail(len.rest)
        ELSE LET buf == SubSeq(len.rest, 1, len.val)
                 rest == SubSeq(len.rest, len.val + 1, Len(len.rest))
             IN  IF from_utf8_ok(buf) THEN Ok(buf, rest) ELSE Fail(rest))

\* A writer that writes the length before it looks at the characters.
write_u32_len_str_late(s, le) ==
    IF ~is_ascii(s) THEN [ok |-> FALSE, out |-> write_u32(Len(s), le).out]
    ELSE Then(write_u32(Len(s), le), Wrote(s))

write_u32_len_str(s, le) ==
    IF ~is_ascii(s) THEN WriteErr
    ELSE Then(write_u32(Len(s), le), Wrote(s))

-----------------------------------------------------------------------------
(* Graph codec: src/src/source.rs.  read_value / write_value of a String   *)
(* are read_u32_len_str / write_u32_len_str; of a sequence, a 4-byte count *)
(* followed by the items.                                                  *)

Kinds == {"Blend", "Morph", "Crossfade", "ChainAnimation",
          "DefaultSync", "DefaultNonSync"}

DefaultKinds == {"DefaultSync", "DefaultNonSync"}

TransitionType_type_code(t) ==
    CASE t = "Blend" -> 0
      [] t = "Morph" -> 1
      [] t = "Crossfade" -> 2
      [] t = "ChainAnimation" -> 3
      [] t = "DefaultSync" -> 4
      [] t = "DefaultNonSync" -> 5

TransitionType_encode_kfm(t, le) == write_u32(TransitionType_type_code(t), le)

\* A decoder that takes every code above 4 for the last Kind.
TransitionType_decode_kfm_lenient(b, le) ==
    Try(read_u32(b, le), LAMBDA type_code :
        CASE type_code.val = 0 -> Ok("Blend", type_code.rest)
          [] type_code.val = 1 -> Ok("Morph", type_code.rest)
          [] type_code.val = 2 -> Ok("Crossfade", type_code.rest)
          [] type_code.val = 3 -> Ok("ChainAnimation", type_code.rest)
          [] type_code.val = 4 -> Ok("DefaultSync", type_code.rest)
          [] OTHER -> Ok("DefaultNonSync", type_code.rest))

TransitionType_decode_kfm(b, le) ==
    Try(read_u32(b, le), LAMBDA type_code :
        CASE type_code.val = 0 -> Ok("Blend", type_code.rest)
          [] type_code.val = 1 -> Ok("Morph", type_code.rest)
          [] type_code.val = 2 -> Ok("Crossfade", type_code.rest)
          [] type_code.val = 3 -> Ok("ChainAnimation", type_code.rest)
          [] type_code.val = 4 -> Ok("DefaultSync", type_code.rest)
          [] type_code.val = 5 -> Ok("DefaultNonSync", type_code.rest)
          [] OTHER -> Fail(type_code.rest))

\* The results rs[i..] in turn, up to the first that failed.
RECURSIVE WriteItems(_, _)
WriteItems(rs, i) ==
    IF i > Len(rs) THEN Wrote(<< >>)
    ELSE IF ~rs[i].ok THEN rs[i]
    ELSE The({[ok |-> t.ok, out |-> rs[i].out \o t.out] : t \in {WriteItems(rs, i + 1)}})

\* write_value of a slice: the count, then each item in order.
WriteVec(rs, le) ==
    The({Then(write_u32(Len(x), le), WriteItems(x, 1)) : x \in {rs}})

ChainAnimation_encode_kfm(c, le) ==
    Then(write_u32(c.id, le), write_u32(c.duration, le))

ChainAnimation_decode_kfm(b, le) ==
    Try(read_u32(b, le), LAMBDA id :
    Try(read_u32(id.rest, le), LAMBDA duration :
        Ok([id |-> id.val, duration |-> duration.val], duration.rest)))

IntermediateAnimation_encode_kfm(a, le) ==
    Then(write_u32_len_str(a.start_key, le), write_u32_len_str(a.target_key, le))

IntermediateAnimation_decode_kfm(b, le) ==
    Try(read_u32_len_str(b, le), LAMBDA start_key :
    Try(read_u32_len_str(start_key.rest, le), LAMBDA target_key :
        Ok([start_key |-> start_key.val, target_key |-> target_key.val],
           target_key.rest)))

\* read_value of a Vec: n items, failing as soon as one item fails.
RECURSIVE ReadChainAnims(_, _, _, _)
ReadChainAnims(b, le, n, acc) ==
    IF n = 0 THEN Ok(acc, b)
    ELSE IF TooLong(n, b) THEN Fail(b)
    ELSE Try(ChainAnimation_decode_kfm(b, le), LAMBDA r :
             ReadChainAnims(r.rest, le, n - 1, Append(acc, r.val)))

RECURSIVE ReadIntermediateAnims(_, _, _, _)
ReadIntermediateAnims(b, le, n, acc) ==
    IF n = 0 THEN Ok(acc, b)
    ELSE IF TooLong(n, b) THEN Fail(b)
    ELSE Try(IntermediateAnimation_decode_kfm(b, le), LAMBDA r :
             ReadIntermediateAnims(r.rest, le, n - 1, Append(acc, r.val)))

TransitionExt_encode_kfm(e, le) ==
    Then(write_u32(e.duration, le),
    Then(WriteVec([i \in 1..Len(e.intermediate_anims) |->
                     IntermediateAnimation_encode_kfm(e.intermediate_anims[i], le)], le),
         WriteVec([i \in 1..Len(e.chain_anims) |->
                     ChainAnimation_encode_kfm(e.chain_anims[i], le)], le)))

TransitionExt_decode_kfm(b, le) ==
    Try(read_u32(b, le), LAMBDA duration :
    Try(read_u32(duration.rest, le), LAMBDA n_inter :
    Try(ReadIntermediateAnims(n_inter.rest, le, n_inter.val, << >>),
        LAMBDA intermediate_anims :
    Try(read_u32(intermediate_anims.rest, le), LAMBDA n_chain :
    Try(ReadChainAnims(n_chain.rest, le, n_chain.val, << >>), LAMBDA chain_anims :
        Ok([duration |-> duration.val,
            intermediate_anims |-> intermediate_anims.val,
            chain_anims |-> chain_anims.val], chain_anims.rest))))))

\* The encoder branches on the presence of ext, not on the Kind.
Transition_encode_kfm(t, le) ==
    Then(write_u32(t.id, le),
    Then(TransitionType_encode_kfm(t.type_, le),
         IF t.ext # None THEN TransitionExt_encode_kfm(t.ext[1], le)
         ELSE Wrote(<< >>)))

\* The decoder branches on the Kind it has just read.
Transition_decode_kfm(b, le) ==
    Try(read_u32(b, le), LAMBDA id :
    Try(TransitionType_decode_kfm(id.rest, le), LAMBDA type_ :
        IF type_.val \in DefaultKinds
        THEN Ok([id |-> id.val, type_ |-> type_.val, ext |-> None], type_.rest)
        ELSE Try(TransitionExt_decode_kfm(type_.rest, le), LAMBDA ext :
                 Ok([id |-> id.val, type_ |-> type_.val, ext |-> Some(ext.val)],
                    ext.rest))))

RECURSIVE ReadTransitions(_, _, _, _)
ReadTransitions(b, le, n, acc) ==
    IF n = 0 THEN Ok(acc, b)
    ELSE IF TooLong(n, b) THEN Fail(b)
    ELSE Try(Transition_decode_kfm(b, le), LAMBDA r :
             ReadTransitions(r.rest, le, n - 1, Append(acc, r.val)))

Transitions_encode_kfm(ts, le) ==
    WriteVec([i \in 1..Len(ts) |-> Transition_encode_kfm(ts[i], le)], le)

Transitions_decode_kfm(b, le) ==
    Try(read_u32(b, le), LAMBDA n : ReadTransitions(n.rest, le, n.val, << >>))

Animation_encode_kfm(a, le) ==
    Then(write_u32(a.id, le),
    Then(write_u32_len_str(a.path, le),
    Then(write_u32(a.index, le),
         Transitions_encode_kfm(a.trans, le))))

Animation_decode_kfm(b, le) ==
    Try(read_u32(b, le), LAMBDA id :
    Try(read_u32_len_str(id.rest, le), LAMBDA path :
    Try(read_u32(path.rest, le), LAMBDA index :
    Try(Transitions_decode_kfm(index.rest, le), LAMBDA trans :
        Ok([id |-> id.val, path |-> path.val,
            index |-> index.val, trans |-> trans.val], trans.rest)))))

RECURSIVE ReadAnimations(_, _, _, _)
ReadAnimations(b, le, n, acc) ==
    IF n = 0 THEN Ok(acc, b)
    ELSE IF TooLong(n, b) THEN Fail(b)
    ELSE Try(Animation_decode_kfm(b, le), LAMBDA r :
             ReadAnimations(r.rest, le, n - 1, Append(acc, r.val)))

\* An i32 is written as its two's complement: the same bit pattern.
write_i32(v, le) == write_u32(v, le)

read_i32(b, le) == read_u32(b, le)

Layer_encode_kfm(l, le) ==
    Then(write_u32(l.id, le),
    Then(write_i32(l.priority, le),
    Then(write_u32(l.weight, le),
    Then(write_u32(l.ease_in_time, le),
    Then(write_u32(l.ease_out_time, le),
         write_u32(l.sync_id, le))))))

Layer_decode_kfm(b, le) ==
    Try(read_u32(b, le), LAMBDA id :
    Try(read_i32(id.rest, le), LAMBDA priority :
    Try(read_u32(priority.rest, le), LAMBDA weight :
    Try(read_u32(weight.rest, le), LAMBDA ease_in_time :
    Try(read_u32(ease_in_time.rest, le), LAMBDA ease_out_time :
    Try(read_u32(ease_out_time.rest, le), LAMBDA sync_id :
        Ok([id |-> id.val, priority |-> priority.val, weight |-> weight.val,
            ease_in_time |-> ease_in_time.val,
            ease_out_time |-> ease_out_time.val,
            sync_id |-> sync_id.val], sync_id.rest)))))))

RECURSIVE ReadLayers(_, _, _, _)
ReadLayers(b, le, n, acc) ==
    IF n = 0 THEN Ok(acc, b)
    ELSE IF TooLong(n, b) THEN Fail(b)
    ELSE Try(Layer_decode_kfm(b, le), LAMBDA r :
             ReadLayers(r.rest, le, n - 1, Append(acc, r.val)))

LayerGroup_encode_kfm(g, le) ==
    Then(write_u32(g.id, le),
    Then(write_u32_len_str(g.name, le),
         WriteVec([i \in 1..Len(g.layers) |-> Layer_encode_kfm(g.layers[i], le)], le)))

LayerGroup_decode_kfm(b, le) ==
    Try(read_u32(b, le), LAMBDA id :
    Try(read_u32_len_str(id.rest, le), LAMBDA name :
    Try(read_u32(name.rest, le), LAMBDA n :
    Try(ReadLayers(n.rest, le, n.val, << >>), LAMBDA layers :
        Ok([id |-> id.val, name |-> name.val, layers |-> layers.val],
           layers.rest)))))

RECURSIVE ReadLayerGroups(_, _, _, _)
ReadLayerGroups(b, le, n, acc) ==
    IF n = 0 THEN Ok(acc, b)
    ELSE IF TooLong(n, b) THEN Fail(b)
    ELSE Try(LayerGroup_decode_kfm(b, le), LAMBDA r :
             ReadLayerGroups(r.rest, le, n - 1, Append(acc, r.val)))

Model_encode_kfm(m, le) ==
    Then(write_u32_len_str(m.path, le), write_u32_len_str(m.root, le))

Model_decode_kfm(b, le) ==
    Try(read_u32_len_str(b, le), LAMBDA path :
    Try(read_u32_len_str(path.rest, le), LAMBDA root :
        Ok([path |-> path.val, root |-> root.val], root.rest)))

\* On the wire the two Kinds come first, then the two durations.
DefaultTransitions_encode_kfm(d, le) ==
    Then(TransitionType_encode_kfm(d.sync_type, le),
    Then(TransitionType_encode_kfm(d.non_sync_type, le),
    Then(write_u32(d.sync_duration, le),
         write_u32(d.non_sync_duration, le))))

\* A decoder that reads the fields in the order the struct declares them.
DefaultTransitions_decode_kfm_struct_order(b, le) ==
    Try(TransitionType_decode_kfm(b, le), LAMBDA sync_type :
    Try(read_u32(sync_type.rest, le), LAMBDA sync_duration :
    Try(TransitionType_decode_kfm(sync_duration.rest, le), LAMBDA non_sync_type :
    Try(read_u32(non_sync_type.rest, le), LAMBDA non_sync_duration :
        Ok([sync_type |-> sync_type.val,
            sync_duration |-> sync_duration.val,
            non_sync_type |-> non_sync_type.val,
            non_sync_duration |-> non_sync_duration.val],
           non_sync_duration.rest)))))

DefaultTransitions_decode_kfm(b, le) ==
    Try(TransitionType_decode_kfm(b, le), LAMBDA sync_type :
    Try(TransitionType_decode_kfm(sync_type.rest, le), LAMBDA non_sync_type :
    Try(read_u32(non_sync_type.rest, le), LAMBDA sync_duration :
    Try(read_u32(sync_duration.rest, le), LAMBDA non_sync_duration :
        Ok([sync_type |-> sync_type.val,
            sync_duration |-> sync_duration.val,
            non_sync_type |-> non_sync_type.val,
            non_sync_duration |-> non_sync_duration.val],
           non_sync_duration.rest)))))

SourceFileBody_encode_kfm(body, le) ==
    Then(Model_encode_kfm(body.model, le),
    Then(DefaultTransitions_encode_kfm(body.default_trans, le),
    Then(WriteVec([i \in 1..Len(body.anims) |->
                     Animation_encode_kfm(body.anims[i], le)], le),
         WriteVec([i \in 1..Len(body.layer_groups) |->
                     LayerGroup_encode_kfm(body.layer_groups[i], le)], le))))

SourceFileBody_decode_kfm(b, le) ==
    Try(Model_decode_kfm(b, le), LAMBDA model :
    Try(DefaultTransitions_decode_kfm(model.rest, le), LAMBDA default_trans :
    Try(read_u32(default_trans.rest, le), LAMBDA n_anims :
    Try(ReadAnimations(n_anims.rest, le, n_anims.val, << >>), LAMBDA anims :
    Try(read_u32(anims.rest, le), LAMBDA n_groups :
    Try(ReadLayerGroups(n_groups.rest, le, n_groups.val, << >>), LAMBDA layer_groups :
        Ok([model |-> model.val, default_trans |-> default_trans.val,
            anims |-> anims.val, layer_groups |-> layer_groups.val],
           layer_groups.rest)))))))

\* "Gamebryo KFM File Version 2.2.0.0b\n"
EXPECTED_MAGIC ==
    << 71, 97, 109, 101, 98, 114, 121, 111, 32, 75, 70, 77, 32, 70, 105, 108,
       101, 32, 86, 101, 114, 115, 105, 111, 110, 32, 50, 46, 50, 46, 48, 46,
       48, 98, 10 >>

\* The byte written after the magic is the literal 1, whatever the header says.
encode_source_file_header(header) ==
    Then(write_u8(header.version),
    Then(Wrote(EXPECTED_MAGIC),
         write_u8(1)))

\* read_exact of the magic's length, from_utf8, and the comparison.
read_magic(b) ==
    LET n == Len(EXPECTED_MAGIC)
        magic == SubSeq(b, 1, n)
        rest == SubSeq(b, n + 1, Len(b))
    IN  IF Len(b) < n THEN Fail(b)
        ELSE IF ~from_utf8_ok(magic) THEN Fail(rest)
        ELSE IF magic # EXPECTED_MAGIC THEN Fail(rest)
        ELSE Ok(magic, rest)

\* A decoder that takes every byte but 0 for little-endian.
decode_source_file_header_lenient(b) ==
    Try(read_u8(b), LAMBDA version :
    Try(read_magic(version.rest), LAMBDA magic :
    Try(read_u8(magic.rest), LAMBDA flag :
        Ok([version |-> version.val, is_little_endian |-> flag.val # 0], flag.rest))))

decode_source_file_header(b) ==
    Try(read_u8(b), LAMBDA version :
    Try(read_magic(version.rest), LAMBDA magic :
    Try(read_u8(magic.rest), LAMBDA flag :
        IF flag.val = 0
        THEN Ok([version |-> version.val, is_little_endian |-> FALSE], flag.rest)
        ELSE IF flag.val = 1
        THEN Ok([version |-> version.val, is_little_endian |-> TRUE], flag.rest)
        ELSE Fail(flag.rest))))

from_kfm_reader(b) ==
    Try(decode_source_file_header(b), LAMBDA header :
    Try(SourceFileBody_decode_kfm(header.rest, header.val.is_little_endian),
        LAMBDA body :
        Ok([header |-> header.val, body |-> body.val], body.rest)))

to_kfm_writer(f) ==
    Then(encode_source_file_header(f.header),
         SourceFileBody_encode_kfm(f.body, f.header.is_little_endian))

-----------------------------------------------------------------------------
(* Indexed View: src/src/source.rs.  A BTreeMap is a function whose domain *)
(* is its key set.                                                         *)

EmptyMap == << >>

\* BTreeMap::insert: the value under k is replaced if there was one.
Insert(m, k, v) == [x \in (DOMAIN m) \cup {k} |-> IF x = k THEN v ELSE m[x]]

\* BTreeMap::retain / remove: the entries whose key is not in ks.
Without(m, ks) == [x \in (DOMAIN m) \ ks |-> m[x]]

MappedTransition_from(tran) == [type_ |-> tran.type_, ext |-> tran.ext]

\* TryFrom<Animation> for MappedAnimation: a second edge to the same target
\* is an error.
RECURSIVE MapTrans(_, _, _)
MapTrans(trans, i, acc) ==
    IF i > Len(trans) THEN [ok |-> TRUE, val |-> acc]
    ELSE IF trans[i].id \in DOMAIN acc THEN [ok |-> FALSE, val |-> acc]
    ELSE MapTrans(trans, i + 1, Insert(acc, trans[i].id, MappedTransition_from(trans[i])))

MappedAnimation_try_from(from) ==
    The({[ok |-> t.ok,
          val |-> [path |-> from.path, index |-> from.index, trans |-> t.val]]
         : t \in {MapTrans(from.trans, 1, EmptyMap)}})

-----------------------------------------------------------------------------
(* Pattern selector: src/src/regex_or.rs, collect_matching_ids             *)
(* A selector is [kind |-> "Other", o |-> id] or [kind |-> "Regex",        *)
(* re |-> pattern]; a pattern is a sequence of tokens: a decimal digit     *)
(* "0".."9", ".*", "^" (first only) or "$" (last only).                    *)

Other(o) == [kind |-> "Other", o |-> o]
Regex(re) == [kind |-> "Regex", re |-> re]

Digit(d) == <<"0", "1", "2", "3", "4", "5", "6", "7", "8", "9">>[d + 1]

\* u32::to_string: the decimal digits, most significant first.
RECURSIVE to_string(_)
to_string(i) ==
    IF i < 10 THEN <<Digit(i)>> ELSE Append(to_string(i \div 10), Digit(i % 10))

\* Does p[i..] match a prefix of s[j..] (all of it when p ends in "$")?
RECURSIVE MatchHere(_, _, _, _)
MatchHere(p, i, s, j) ==
    IF i > Len(p) THEN TRUE
    ELSE IF p[i] = "$" THEN j > Len(s)
    ELSE IF p[i] = ".*" THEN \E k \in j..(Len(s) + 1) : MatchHere(p, i + 1, s, k)
    ELSE j <= Len(s) /\ s[j] = p[i] /\ MatchHere(p, i + 1, s, j + 1)

\* A match that must start at the first character of s.
is_match_at_start(p, s) ==
    MatchHere(p, IF p # << >> /\ p[1] = "^" THEN 2 ELSE 1, s, 1)

\* Regex::is_match: the pattern matches somewhere in s.
is_match(p, s) ==
    IF p # << >> /\ p[1] = "^" THEN MatchHere(p, 2, s, 1)
    ELSE \E j \in 1..(Len(s) + 1) : MatchHere(p, 1, s, j)

collect_matching_ids(ids, value) ==
    IF value.kind = "Regex"
    THEN {i \in ids : is_match(value.re, to_string(i))}
    ELSE {i \in ids : i = value.o}

-----------------------------------------------------------------------------
(* Patch engine: src/src/patch.rs.  A handler returns the set of outcomes  *)
(* [ok, m_src] it can end with: the Result it returns and the view it      *)
(* leaves.  A HashSet is visited in an order the program does not choose,  *)
(* so a loop over one is every order.                                      *)

Done(m) == [ok |-> TRUE, m_src |-> m, err |-> "none"]
Bail(m, e) == [ok |-> FALSE, m_src |-> m, err |-> e]

\* `step?; rest`: the outcomes of rest after each successful outcome of step.
AndThen(outs, K(_)) ==
    UNION {IF o.ok THEN K(o.m_src) ELSE {o} : o \in outs}

\* An Add Clip that also empties the Layer Groups of the view.
on_add_anim_reset(m, add) ==
    The({IF ~a.ok THEN {Bail(m, "map anim")}
         ELSE IF add.id \in DOMAIN m.anims
         THEN {Bail([m EXCEPT !.anims = Insert(@, add.id, a.val),
                              !.layer_groups = << >>], "anim already exists")}
         ELSE {Done([m EXCEPT !.anims = Insert(@, add.id, a.val),
                              !.layer_groups = << >>])}
         : a \in {MappedAnimation_try_from(add)}})

on_add_anim(m, add) ==
    The({IF ~a.ok THEN {Bail(m, "map anim")}
         ELSE IF add.id \in DOMAIN m.anims
         THEN {Bail([m EXCEPT !.anims = Insert(@, add.id, a.val)], "anim already exists")}
         ELSE {Done([m EXCEPT !.anims = Insert(@, add.id, a.val)])}
         : a \in {MappedAnimation_try_from(add)}})

\* A delete that removes the matched Clips and leaves the edges to them.
on_delete_anim_no_cascade(m, delete) ==
    {Done([m EXCEPT !.anims =
             Without(@, collect_matching_ids(DOMAIN m.anims, delete.id))])}

on_delete_anim(m, delete) ==
    The({{Done([m EXCEPT !.anims =
                  [id \in (DOMAIN @) \ delete_ids |->
                      [@[id] EXCEPT !.trans = Without(@, delete_ids)]]])}
         : delete_ids \in {collect_matching_ids(DOMAIN m.anims, delete.id)}})

\* The loop of on_add_tran over the ids still to visit.
RECURSIVE AddTranLoop(_, _, _, _)
AddTranLoop(m, parent_anim_id, left, add) ==
    IF left = {} THEN {Done(m)}
    ELSE UNION {
        The({IF tran_id \in DOMAIN m.anims[parent_anim_id].trans
             THEN {Bail(m2, "anim already has tran")}
             ELSE AddTranLoop(m2, parent_anim_id, left \ {tran_id}, add)
             : m2 \in {[m EXCEPT !.anims[parent_anim_id].trans =
                          Insert(@, tran_id, [type_ |-> add.type_, ext |-> add.ext])]}})
        : tran_id \in left}

\* An Add Edge that keeps the owning Clip among the targets.
on_add_tran_keep_parent(m, parent_anim_id, add) ==
    IF parent_anim_id \notin DOMAIN m.anims THEN {Bail(m, "get parent anim")}
    ELSE AddTranLoop(m, parent_anim_id,
                     collect_matching_ids(DOMAIN m.anims, add.id), add)

on_add_tran(m, parent_anim_id, add) ==
    IF parent_anim_id \notin DOMAIN m.anims THEN {Bail(m, "get parent anim")}
    ELSE AddTranLoop(m, parent_anim_id,
                     collect_matching_ids(DOMAIN m.anims, add.id) \ {parent_anim_id},
                     add)

\* A Delete Edge that removes every edge of the Clip once an edge matches.
DeleteTranLoop_clear(m, parent_anim_id, left) ==
    IF left = {} THEN {Done(m)}
    ELSE {Done([m EXCEPT !.anims[parent_anim_id].trans = Without(@, DOMAIN @)])}

RECURSIVE DeleteTranLoop(_, _, _)
DeleteTranLoop(m, parent_anim_id, left) ==
    IF left = {} THEN {Done(m)}
    ELSE UNION {
        IF tran_id \notin DOMAIN m.anims[parent_anim_id].trans
        THEN {Bail(m, "anim did not have a tran")}
        ELSE DeleteTranLoop([m EXCEPT !.anims[parent_anim_id].trans =
                                 Without(@, {tran_id})],
                            parent_anim_id, left \ {tran_id})
        : tran_id \in left}

\* A Delete Edge that resolves its selector against all Clip ids.
on_delete_tran_all_ids(m, parent_anim_id, delete) ==
    IF parent_anim_id \notin DOMAIN m.anims THEN {Bail(m, "get parent anim")}
    ELSE DeleteTranLoop(m, parent_anim_id,
             collect_matching_ids(DOMAIN m.anims, delete.id))

on_delete_tran(m, parent_anim_id, delete) ==
    IF parent_anim_id \notin DOMAIN m.anims THEN {Bail(m, "get parent anim")}
    ELSE DeleteTranLoop(m, parent_anim_id,
             collect_matching_ids(DOMAIN m.anims[parent_anim_id].trans, delete.id))

\* An Update Edge that overwrites ext only when the instruction supplies one.
UpdateTranLoop_partial(m, parent_anim_id, left, update) ==
    {Done([m EXCEPT !.anims[parent_anim_id].trans =
             [t \in DOMAIN @ |->
                IF t \notin left THEN @[t]
                ELSE [type_ |-> IF update.type_opt # None
                                THEN update.type_opt[1] ELSE @[t].type_,
                      ext |-> IF update.ext # None THEN update.ext ELSE @[t].ext]]])}

RECURSIVE UpdateTranLoop(_, _, _, _)
UpdateTranLoop(m, parent_anim_id, left, update) ==
    IF left = {} THEN {Done(m)}
    ELSE UNION {
        IF tran_id \notin DOMAIN m.anims[parent_anim_id].trans
        THEN {Bail(m, "get tran")}
        ELSE UpdateTranLoop(
                 [m EXCEPT !.anims[parent_anim_id].trans[tran_id] =
                     [type_ |-> IF update.type_opt # None THEN update.type_opt[1] ELSE @.type_,
                      ext |-> update.ext]],
                 parent_anim_id, left \ {tran_id}, update)
        : tran_id \in left}

on_update_tran(m, parent_anim_id, update) ==
    IF parent_anim_id \notin DOMAIN m.anims THEN {Bail(m, "get parent anim")}
    ELSE UpdateTranLoop(m, parent_anim_id,
             collect_matching_ids(DOMAIN m.anims[parent_anim_id].trans, update.id),
             update)

\* The nested edge instructions trans[i..] of an Update, in order.
RECURSIVE TranPatches(_, _, _, _)
TranPatches(m, update_id, trans, i) ==
    IF i > Len(trans) THEN {Done(m)}
    ELSE AndThen(
            CASE trans[i].op = "add" -> on_add_tran(m, update_id, trans[i])
              [] trans[i].op = "delete" -> on_delete_tran(m, update_id, trans[i])
              [] trans[i].op = "update" -> on_update_tran(m, update_id, trans[i]),
            LAMBDA m2 : TranPatches(m2, update_id, trans, i + 1))

\* An Update Clip that replaces the whole record: a field that is not
\* supplied is reset.
UpdateOneAnim_replace(m, update_id, update) ==
    IF update_id \notin DOMAIN m.anims THEN {Bail(m, "get anim")}
    ELSE The({IF update.trans = None THEN {Done(m2)}
              ELSE TranPatches(m2, update_id, update.trans[1], 1)
              : m2 \in {[m EXCEPT !.anims[update_id] =
                           [@ EXCEPT
                              !.path = IF update.path # None THEN update.path[1] ELSE << >>,
                              !.index = IF update.index # None THEN update.index[1] ELSE 0]]}})

\* One round of the loop of on_update_anim: the Clip update_id.
UpdateOneAnim(m, update_id, update) ==
    IF update_id \notin DOMAIN m.anims THEN {Bail(m, "get anim")}
    ELSE The({IF update.trans = None THEN {Done(m2)}
              ELSE TranPatches(m2, update_id, update.trans[1], 1)
              : m2 \in {[m EXCEPT !.anims[update_id] =
                           [@ EXCEPT
                              !.path = IF update.path # None THEN update.path[1] ELSE @,
                              !.index = IF update.index # None THEN update.index[1] ELSE @]]}})

RECURSIVE UpdateAnimLoop(_, _, _)
UpdateAnimLoop(m, left, update) ==
    IF left = {} THEN {Done(m)}
    ELSE UNION {
        AndThen(UpdateOneAnim(m, update_id, update),
                LAMBDA m2 : UpdateAnimLoop(m2, left \ {update_id}, update))
        : update_id \in left}

on_update_anim(m, update) ==
    UpdateAnimLoop(m, collect_matching_ids(DOMAIN m.anims, update.id), update)

\* The instructions taken last to first.
NextPatch_reversed(anims, n) == anims[Len(anims) - n]

\* patch_file.anims.into_iter(): the instruction taken after n were taken.
NextPatch(anims, n) == anims[n + 1]

-----------------------------------------------------------------------------
(* Graph <-> Indexed View: the conversions of src/src/source.rs            *)

\* The order of u32 keys in a BTreeMap, on the integers that hold them.
U32Less(a, b) == IF (a < 0) = (b < 0) THEN a < b ELSE b < 0

\* The keys in descending order.
RECURSIVE Ascending_reversed(_)
Ascending_reversed(S) ==
    IF S = {} THEN << >>
    ELSE The({<<k>> \o Ascending_reversed(S \ {k})
              : k \in {x \in S : \A y \in S \ {x} : y < x}})

\* BTreeMap::into_iter: the keys in ascending order.
RECURSIVE Ascending(_)
Ascending(S) ==
    IF S = {} THEN << >>
    ELSE The({<<k>> \o Ascending(S \ {k})
              : k \in {x \in S : \A y \in S \ {x} : U32Less(x, y)}})

\* A conversion that drops the Extension.
Transition_from_no_ext(id, m_tran) == [id |-> id, type_ |-> m_tran.type_, ext |-> None]

\* From<(u32, MappedTransition)> for Transition
Transition_from(id, m_tran) == [id |-> id, type_ |-> m_tran.type_, ext |-> m_tran.ext]

\* From<(u32, MappedAnimation)> for Animation
Animation_from(id, m_anim) ==
    The({[id |-> id, path |-> m_anim.path, index |-> m_anim.index,
          trans |-> [i \in 1..Len(ks) |-> Transition_from(ks[i], m_anim.trans[ks[i]])]]
         : ks \in {Ascending(DOMAIN m_anim.trans)}})

\* From<MappedSource> for SourceFileBody
SourceFileBody_from(from) ==
    The({[model |-> from.model, default_trans |-> from.default_trans,
          anims |-> [i \in 1..Len(ks) |-> Animation_from(ks[i], from.anims[ks[i]])],
          layer_groups |-> from.layer_groups]
         : ks \in {Ascending(DOMAIN from.anims)}})

\* A loop that keeps the later of two Clips of one id.
MapAnims_overwrite(anims, i, acc) ==
    [ok |-> \A k \in 1..Len(anims) : MappedAnimation_try_from(anims[k]).ok,
     val |-> [id \in {anims[k].id : k \in 1..Len(anims)} |->
                MappedAnimation_try_from(
                    anims[CHOOSE k \in 1..Len(anims) :
                            /\ anims[k].id = id
                            /\ \A j \in (k + 1)..Len(anims) : anims[j].id # id]).val]]

\* The loop of MappedSource::try_from: the Clip is converted, then inserted,
\* then the id is found to have been there.
RECURSIVE MapAnims(_, _, _)
MapAnims(anims, i, acc) ==
    IF i > Len(anims) THEN [ok |-> TRUE, val |-> acc]
    ELSE The({IF ~a.ok THEN [ok |-> FALSE, val |-> acc]
              ELSE IF anims[i].id \in DOMAIN acc
              THEN [ok |-> FALSE, val |-> Insert(acc, anims[i].id, a.val)]
              ELSE MapAnims(anims, i + 1, Insert(acc, anims[i].id, a.val))
              : a \in {MappedAnimation_try_from(anims[i])}})

\* TryFrom<SourceFileBody> for MappedSource
MappedSource_try_from(from) ==
    The({IF ~a.ok THEN [ok |-> FALSE, val |-> << >>]
         ELSE [ok |-> TRUE,
               val |-> [model |-> from.model, default_trans |-> from.default_trans,
                        anims |-> a.val, layer_groups |-> from.layer_groups]]
         : a \in {MapAnims(from.anims, 1, EmptyMap)}})

-----------------------------------------------------------------------------
(* Bounds and input values                                                 *)

MaxTrans == 1        \* edges per Clip of a file on disk
MaxAnims == 1        \* Clips of a file on disk
MaxTranSeq == 2      \* edges handed to the edge codec at once
MaxPatchLen == 3     \* top-level instructions of a patch file

SeqsUpTo(S, n) == UNION {[1..k -> S] : k \in 0..n}

Ext1 == [duration |-> 1, intermediate_anims |-> << >>, chain_anims |-> << >>]
Ext2 == [duration |-> 1056964608,
         intermediate_anims |-> << [start_key |-> <<97>>, target_key |-> <<98>>] >>,
         chain_anims |-> << [id |-> 1, duration |-> 0] >>]

DiskTransitions == [id : {1}, type_ : Kinds, ext : {None, Some(Ext1)}]
DiskAnimations ==
    [id : {0}, path : {<<97>>, <<98, 99>>}, index : {0},
     trans : SeqsUpTo(DiskTransitions, MaxTrans)]
PlainAnimations == {a \in DiskAnimations : a.trans = << >>}
\* Clip sequences: any Clip first, Clips without edges after it.
DiskAnimSeqs ==
    {<< >>} \cup {<<a>> \o t : a \in DiskAnimations,
                               t \in SeqsUpTo(PlainAnimations, MaxAnims - 1)}
DiskLayer == [id |-> 0, priority |-> -1, weight |-> 1065353216,
              ease_in_time |-> 0, ease_out_time |-> 0, sync_id |-> 7]
DiskModel == [path |-> <<109>>, root |-> <<114>>]
DiskDefaultTransitions ==
    {[sync_type |-> "Morph", sync_duration |-> 1048576000,
      non_sync_type |-> "Blend", non_sync_duration |-> 3],
     [sync_type |-> "DefaultSync", sync_duration |-> 0,
      non_sync_type |-> "Crossfade", non_sync_duration |-> 256]}
DiskBodies ==
    [model : {DiskModel}, default_trans : DiskDefaultTransitions,
     anims : DiskAnimSeqs,
     layer_groups : {<< >>, << [id |-> 2, name |-> <<103>>, layers |-> <<DiskLayer>>] >>}]

\* A file as found on disk: version, magic, byte-order flag, and a body laid
\* out in the byte order the flag announces (little-endian unless 0).
DiskImage(version, flag, body) ==
    <<version>> \o EXPECTED_MAGIC \o <<flag>>
        \o SourceFileBody_encode_kfm(body, flag # 0).out

-----------------------------------------------------------------------------
(* SpecFile: load a file, save it, load what was saved                     *)

PatchOff ==
    /\ m_src = << >> /\ m_src0 = << >> /\ m_prev = << >>
    /\ patch_file = << >> /\ pc = 0 /\ result = "off" /\ error = "none"

TranOff ==
    /\ tran_in = << >> /\ tran_le = TRUE
    /\ tran_out = Wrote(<< >>) /\ tran_back = Fail(<< >>) /\ tstage = "off"

ViewOff ==
    /\ graph = << >> /\ mapped = [ok |-> FALSE, val |-> << >>] /\ unmapped = None
    /\ remapped = [ok |-> FALSE, val |-> << >>] /\ vstage = "off"

MatchOff ==
    /\ available = {} /\ selector = Other(0) /\ matching = {} /\ mstage = "off"

CmdOff ==
    /\ patch_disk = None /\ disk0 = << >> /\ cmd = "off"

WireOff ==
    /\ wire_type = "off" /\ wire_in = << >> /\ wire_le = TRUE
    /\ wire_out = Wrote(<< >>) /\ wire_back = Fail(<< >>) /\ wstage = "off"

YamlOff ==
    /\ yaml_in = << >> /\ yaml_text = << >> /\ yaml_back = << >> /\ ystage = "off"

CodecOff ==
    /\ disk = << >> /\ src_file = None
    /\ written = Wrote(<< >>) /\ reread = Fail(<< >>) /\ cstage = "off"

InitFile ==
    /\ \E version \in {2, 255}, flag \in {0, 1, 2}, body \in DiskBodies :
           disk = DiskImage(version, flag, body)
    /\ src_file = None
    /\ written = Wrote(<< >>)
    /\ reread = Fail(<< >>)
    /\ cstage = "start"
    /\ TranOff
    /\ PatchOff
    /\ ViewOff
    /\ MatchOff
    /\ CmdOff
    /\ WireOff
    /\ YamlOff

Load ==
    /\ cstage = "start"
    /\ from_kfm_reader(disk).ok
    /\ src_file' = Some(from_kfm_reader(disk).val)
    /\ cstage' = "loaded"
    /\ UNCHANGED <<disk, written, reread, tran_vars, patch_vars, view_vars, match_vars, cmd_vars, wire_vars, yaml_vars>>

LoadRejected ==
    /\ cstage = "start"
    /\ ~from_kfm_reader(disk).ok
    /\ cstage' = "rejected"
    /\ UNCHANGED <<disk, src_file, written, reread, tran_vars, patch_vars, view_vars, match_vars, cmd_vars, wire_vars, yaml_vars>>

Save ==
    /\ cstage = "loaded"
    /\ written' = to_kfm_writer(src_file[1])
    /\ cstage' = "saved"
    /\ UNCHANGED <<disk, src_file, reread, tran_vars, patch_vars, view_vars, match_vars, cmd_vars, wire_vars, yaml_vars>>

Reload ==
    /\ cstage = "saved"
    /\ written.ok
    /\ reread' = from_kfm_reader(written.out)
    /\ cstage' = "reloaded"
    /\ UNCHANGED <<disk, src_file, written, tran_vars, patch_vars, view_vars, match_vars, cmd_vars, wire_vars, yaml_vars>>

NextFile == Load \/ LoadRejected \/ Save \/ Reload

SpecFile == InitFile /\ [][NextFile]_vars

-----------------------------------------------------------------------------
(* SpecTran: a sequence of edges through the edge encoder and decoder      *)

TranPool == [id : {1, 258}, type_ : Kinds, ext : {None, Some(Ext1), Some(Ext2)}]

InitTran ==
    /\ tran_in \in SeqsUpTo(TranPool, MaxTranSeq)
    /\ tran_le \in BOOLEAN
    /\ tran_out = Wrote(<< >>)
    /\ tran_back = Fail(<< >>)
    /\ tstage = "start"
    /\ CodecOff
    /\ PatchOff
    /\ ViewOff
    /\ MatchOff
    /\ CmdOff
    /\ WireOff
    /\ YamlOff

EncodeTrans ==
    /\ tstage = "start"
    /\ tran_out' = Transitions_encode_kfm(tran_in, tran_le)
    /\ tstage' = "encoded"
    /\ UNCHANGED <<tran_in, tran_le, tran_back, codec_vars, patch_vars, view_vars, match_vars, cmd_vars, wire_vars, yaml_vars>>

DecodeTrans ==
    /\ tstage = "encoded"
    /\ tran_out.ok
    /\ tran_back' = Transitions_decode_kfm(tran_out.out, tran_le)
    /\ tstage' = "decoded"
    /\ UNCHANGED <<tran_in, tran_le, tran_out, codec_vars, patch_vars, view_vars, match_vars, cmd_vars, wire_vars, yaml_vars>>

NextTran == EncodeTrans \/ DecodeTrans

SpecTran == InitTran /\ [][NextTran]_vars

-----------------------------------------------------------------------------
(* Inputs of the patch engine                                              *)

Ids == {0, 1, 10}

PatchKinds == {"Blend", "DefaultSync"}

EdgeDefault == [type_ |-> "DefaultNonSync", ext |-> None]
EdgeBlend == [type_ |-> "Blend", ext |-> Some(Ext1)]

\* "p" followed by the id in decimal.
PathOf(id) ==
    IF id < 10 THEN <<112, 48 + id>> ELSE <<112, 48 + (id \div 10), 48 + (id % 10)>>

\* The view with the Clips S, where each Clip of `linked` has an edge v to
\* every other Clip and the other Clips have no edges.
View(S, linked, v) ==
    [model |-> DiskModel,
     default_trans |-> [sync_type |-> "Morph", sync_duration |-> 1048576000,
                        non_sync_type |-> "Blend", non_sync_duration |-> 3],
     anims |-> [id \in S |->
                  [path |-> PathOf(id), index |-> 0,
                   trans |-> [t \in (IF id \in linked THEN S \ {id} ELSE {}) |-> v]]],
     layer_groups |-> << [id |-> 2, name |-> <<103>>, layers |-> <<DiskLayer>>] >>]

\* Views to patch with a patch file.
InitViews ==
    {View(S, S, v) : S \in {Ids, {0, 1}}, v \in {EdgeDefault, EdgeBlend}}
        \cup {View(S, {}, EdgeDefault) : S \in {Ids, {0, 1}}}

\* Views to patch with a single instruction.
AllViews ==
    UNION {{View(S, linked, v) : linked \in {{}, S, S \ {0}},
                                 v \in {EdgeDefault, EdgeBlend}}
           : S \in SUBSET Ids}

EdgeValues == [type_ : PatchKinds, ext : {None, Some(Ext1)}]

AddAnimation(id, trans) ==
    [op |-> "add", anim |-> [id |-> id, path |-> <<110>>, index |-> 1, trans |-> trans]]
DeleteAnimation(id) == [op |-> "delete", id |-> id]
UpdateAnimation(id, path, index, trans) ==
    [op |-> "update", id |-> id, path |-> path, index |-> index, trans |-> trans]
AddTransition(id, v) == [op |-> "add", id |-> id, type_ |-> v.type_, ext |-> v.ext]
DeleteTransition(id) == [op |-> "delete", id |-> id]
\* type_opt is the field type_ of UpdateTransition, an Option.
UpdateTransition(id, type_, ext) ==
    [op |-> "update", id |-> id, type_opt |-> type_, ext |-> ext]

\* ---- the instructions of a patch file (Spec) ----
FileAdds ==
    {AddAnimation(10, trans) :
        trans \in {<< >>, << [id |-> 0, type_ |-> "DefaultSync", ext |-> None] >>}}
FileDeletes == {DeleteAnimation(id) : id \in {Other(0), Regex(<<"1">>)}}
FileTranPatches ==
    {AddTransition(Regex(<<".*">>), EdgeBlend),
     DeleteTransition(Other(0)),
     UpdateTransition(Regex(<<".*">>), None, None)}
FileUpdates ==
    {UpdateAnimation(id, Some(<<117>>), None, Some(<<t>>)) :
        id \in {Other(1), Regex(<<".*">>)}, t \in FileTranPatches}
FilePatches == FileAdds \cup FileDeletes \cup FileUpdates

\* ---- the instructions applied alone (SpecOne) ----
Selectors == {Other(0), Other(1), Other(10), Regex(<<".*">>), Regex(<<"1">>)}
MaxAddTrans == 2     \* edges of an added Clip
MaxNested == 2       \* edge instructions nested in one Update
AllAdds ==
    {AddAnimation(id, trans) :
        id \in Ids,
        trans \in SeqsUpTo([id : {0, 1}, type_ : {"Blend", "DefaultSync"},
                            ext : {None, Some(Ext1)}], MaxAddTrans)}
AllDeletes == {DeleteAnimation(id) : id \in Selectors}
AllTranPatches ==
    {AddTransition(id, v) : id \in Selectors, v \in EdgeValues}
        \cup {DeleteTransition(id) : id \in Selectors}
        \cup {UpdateTransition(id, type_, ext) :
                id \in Selectors, type_ \in {None, Some("Blend"), Some("DefaultSync")},
                ext \in {None, Some(Ext2)}}
\* One nested instruction of any shape, or several of those of a patch file.
NestedSeqs ==
    SeqsUpTo(AllTranPatches, 1) \cup SeqsUpTo(FileTranPatches, MaxNested)
AllUpdates ==
    {UpdateAnimation(id, path, index, trans) :
        id \in Selectors, path \in {None, Some(<<117>>)}, index \in {None, Some(2)},
        trans \in {None} \cup {Some(s) : s \in NestedSeqs}}
AllPatches == AllAdds \cup AllDeletes \cup AllUpdates

-----------------------------------------------------------------------------
(* Spec: patch::apply on a patch file.  SpecOne: on a single instruction.  *)

PatchStart ==
    /\ m_src0 = m_src
    /\ m_prev = m_src
    /\ pc = 0
    /\ result = "running"
    /\ error = "none"
    /\ CodecOff
    /\ TranOff
    /\ ViewOff
    /\ MatchOff
    /\ CmdOff
    /\ WireOff
    /\ YamlOff

Init ==
    /\ m_src \in InitViews
    /\ patch_file \in SeqsUpTo(FilePatches, MaxPatchLen)
    /\ PatchStart

InitOne ==
    /\ m_src \in AllViews
    /\ patch_file \in {<<p>> : p \in AllPatches}
    /\ PatchStart

\* A loop that goes on after an Err.
Propagate_ignore(o) == "running"

\* `?` on the Result of a handler: an Err is returned from apply at once.
Propagate(o) == IF o.ok THEN "running" ELSE "err"

\* The loop of apply has an instruction to take.
Running ==
    /\ result = "running"
    /\ pc < Len(patch_file)

\* The end of one round of the loop, the handler having ended with o.
Round(o) ==
    /\ m_src' = o.m_src
    /\ result' = Propagate(o)
    /\ error' = o.err
    /\ m_prev' = m_src
    /\ pc' = pc + 1
    /\ UNCHANGED <<m_src0, patch_file, codec_vars, tran_vars, view_vars, match_vars, cmd_vars, wire_vars, yaml_vars>>

ApplyAdd ==
    /\ Running
    /\ NextPatch(patch_file, pc).op = "add"
    /\ \E o \in on_add_anim(m_src, NextPatch(patch_file, pc).anim) : Round(o)

ApplyDelete ==
    /\ Running
    /\ NextPatch(patch_file, pc).op = "delete"
    /\ \E o \in on_delete_anim(m_src, NextPatch(patch_file, pc)) : Round(o)

ApplyUpdate ==
    /\ Running
    /\ NextPatch(patch_file, pc).op = "update"
    /\ \E o \in on_update_anim(m_src, NextPatch(patch_file, pc)) : Round(o)

\* The loop is over: apply returns Ok(()).
ApplyDone ==
    /\ result = "running"
    /\ pc = Len(patch_file)
    /\ result' = "ok"
    /\ UNCHANGED <<m_src, m_src0, m_prev, patch_file, pc, error, codec_vars, tran_vars, view_vars, match_vars, cmd_vars, wire_vars, yaml_vars>>

\* The patched view is converted to a Graph (m_src.into()).
UnmapPatched ==
    /\ result = "ok"
    /\ vstage = "off"
    /\ unmapped' = Some(SourceFileBody_from(m_src))
    /\ vstage' = "unmapped"
    /\ UNCHANGED <<graph, mapped, remapped, codec_vars, tran_vars, patch_vars, match_vars, cmd_vars, wire_vars, yaml_vars>>

\* The Graph made of a view is converted to a view.
Remap ==
    /\ vstage = "unmapped"
    /\ remapped' = MappedSource_try_from(unmapped[1])
    /\ vstage' = "remapped"
    /\ UNCHANGED <<graph, mapped, unmapped, codec_vars, tran_vars, patch_vars, match_vars, cmd_vars, wire_vars, yaml_vars>>

Next == ApplyAdd \/ ApplyDelete \/ ApplyUpdate \/ ApplyDone \/ UnmapPatched \/ Remap

Spec == Init /\ [][Next]_vars

SpecOne == InitOne /\ [][Next]_vars

-----------------------------------------------------------------------------
(* SpecView: a Graph to the Indexed View, back to a Graph, and to the view *)
(* again                                                                   *)

MaxViewTrans == 2    \* edges of a Clip of a Graph
MaxViewAnims == 2    \* Clips of a Graph

\* 4294967295 is held as -1.
GraphIds == {0, 1, -1}

GraphTransitions ==
    {[id |-> id, type_ |-> v.type_, ext |-> v.ext] :
        id \in {0, 1}, v \in {EdgeDefault, EdgeBlend}}
GraphAnimations ==
    [id : GraphIds, path : {<<98>>}, index : {0},
     trans : SeqsUpTo(GraphTransitions, MaxViewTrans)]
LightAnimations ==
    [id : GraphIds, path : {<<97>>}, index : {3},
     trans : {<< >>, <<[id |-> 0, type_ |-> "DefaultNonSync", ext |-> None]>>}]
\* Clip sequences: one Clip of any shape, light ones before or after it.
GraphAnimSeqs ==
    {<< >>} \cup UNION {{<<a>> \o t, t \o <<a>>} :
                          a \in GraphAnimations,
                          t \in SeqsUpTo(LightAnimations, MaxViewAnims - 1)}
Graphs ==
    [model : {DiskModel}, default_trans : DiskDefaultTransitions,
     anims : GraphAnimSeqs,
     layer_groups : {<< [id |-> 2, name |-> <<103>>, layers |-> <<DiskLayer>>] >>}]

InitView ==
    /\ graph \in Graphs
    /\ mapped = [ok |-> FALSE, val |-> << >>]
    /\ unmapped = None
    /\ remapped = [ok |-> FALSE, val |-> << >>]
    /\ vstage = "start"
    /\ CodecOff
    /\ TranOff
    /\ PatchOff
    /\ MatchOff
    /\ CmdOff
    /\ WireOff
    /\ YamlOff

\* MappedSource::try_from(graph) returns Ok.
Map ==
    /\ vstage = "start"
    /\ MappedSource_try_from(graph).ok
    /\ mapped' = MappedSource_try_from(graph)
    /\ vstage' = "mapped"
    /\ UNCHANGED <<graph, unmapped, remapped, codec_vars, tran_vars, patch_vars, match_vars, cmd_vars, wire_vars, yaml_vars>>

\* MappedSource::try_from(graph) returns Err.
MapRejected ==
    /\ vstage = "start"
    /\ ~MappedSource_try_from(graph).ok
    /\ mapped' = MappedSource_try_from(graph)
    /\ vstage' = "rejected"
    /\ UNCHANGED <<graph, unmapped, remapped, codec_vars, tran_vars, patch_vars, match_vars, cmd_vars, wire_vars, yaml_vars>>

\* The view built from graph is converted to a Graph.
Unmap ==
    /\ vstage = "mapped"
    /\ unmapped' = Some(SourceFileBody_from(mapped.val))
    /\ vstage' = "unmapped"
    /\ UNCHANGED <<graph, mapped, remapped, codec_vars, tran_vars, patch_vars, match_vars, cmd_vars, wire_vars, yaml_vars>>

NextView == Map \/ MapRejected \/ Unmap \/ Remap

SpecView == InitView /\ [][NextView]_vars


-----------------------------------------------------------------------------
(* SpecMatch: collect_matching_ids on a set of ids and a selector          *)

MaxMatchId == 10     \* the ids 0..MaxMatchId are available, and a few longer ones
MaxAvailable == 3    \* ids handed to collect_matching_ids at once

MatchIds == (0..MaxMatchId) \cup {11, 21, 100, 101, 110}

MatchPatterns ==
    {<< >>, <<".*">>, <<"1">>, <<"0">>, <<"2">>, <<"1", "0">>, <<"^", "1">>,
     <<"1", "$">>, <<"^", "1", "$">>, <<"1", ".*", "0">>, <<"^", ".*", "$">>}

MatchSelectors ==
    {Other(o) : o \in {0, 1, 10, 200}} \cup {Regex(re) : re \in MatchPatterns}

InitMatch ==
    /\ available \in {ids \in SUBSET MatchIds : Cardinality(ids) <= MaxAvailable}
    /\ selector \in MatchSelectors
    /\ matching = {}
    /\ mstage = "start"
    /\ CodecOff
    /\ TranOff
    /\ PatchOff
    /\ ViewOff
    /\ CmdOff
    /\ WireOff
    /\ YamlOff

Collect ==
    /\ mstage = "start"
    /\ matching' = collect_matching_ids(available, selector)
    /\ mstage' = "collected"
    /\ UNCHANGED <<available, selector, codec_vars, tran_vars, patch_vars, view_vars, cmd_vars, wire_vars, yaml_vars>>

NextMatch == Collect

SpecMatch == InitMatch /\ [][NextMatch]_vars
-----------------------------------------------------------------------------
(* Claims about the codec                                                  *)

\* C1: a file that from_kfm_reader produced, written by to_kfm_writer and
\* read again, comes back equal: same version, same byte-order flag, same
\* body, under either byte order.
FileRoundTrip ==
    cstage = "reloaded" => reread.ok /\ reread.val = src_file[1]

\* C5: an edge of a default Kind whose ext is present is written as its id
\* and its Kind code only, so that it decodes to the same id and Kind with
\* ext absent and nothing written is left unread.
DefaultKindWritesNoExt ==
    (/\ tstage = "decoded"
     /\ Len(tran_in) = 1
     /\ tran_in[1].type_ \in DefaultKinds
     /\ tran_in[1].ext # None)
    => /\ Len(tran_out.out) = 4 + 8
       /\ tran_back.ok
       /\ tran_back.val = << [tran_in[1] EXCEPT !.ext = None] >>
       /\ tran_back.rest = << >>

\* C6: for every edge, whatever its Kind and whether or not it has an ext,
\* the decoder reads an Extension exactly when the encoder wrote one: the
\* decoded sequence has the ids and Kinds that were encoded, in order, and
\* every written byte is consumed.
EncodeDecodeAgreeOnExt ==
    tstage = "decoded"
    => /\ tran_back.ok
       /\ tran_back.rest = << >>
       /\ Len(tran_back.val) = Len(tran_in)
       /\ \A i \in 1..Len(tran_in) :
            /\ tran_back.val[i].id = tran_in[i].id
            /\ tran_back.val[i].type_ = tran_in[i].type_

-----------------------------------------------------------------------------
(* Properties of the patch engine                                          *)

\* Every edge of every Clip of m targets a Clip of m.
NoDangling(m) ==
    \A c \in DOMAIN m.anims : DOMAIN m.anims[c].trans \subseteq DOMAIN m.anims

\* Every edge of m has ext exactly when its Kind is not a Default* one.
ExtPresence(m) ==
    \A c \in DOMAIN m.anims : \A t \in DOMAIN m.anims[c].trans :
        (m.anims[c].trans[t].ext # None) <=> (m.anims[c].trans[t].type_ \notin DefaultKinds)

\* The outcomes of one top-level instruction: the match of apply.
ApplyOne(m, anim_patch) ==
    CASE anim_patch.op = "add" -> on_add_anim(m, anim_patch.anim)
      [] anim_patch.op = "delete" -> on_delete_anim(m, anim_patch)
      [] anim_patch.op = "update" -> on_update_anim(m, anim_patch)

\* The views m0 can be in after file[1..n] were applied with success.
RECURSIVE Compose(_, _, _)
Compose(m0, file, n) ==
    IF n = 0 THEN {m0}
    ELSE UNION {{o.m_src : o \in {x \in ApplyOne(m, file[n]) : x.ok}}
                : m \in Compose(m0, file, n - 1)}

\* The instruction applied last, when one was.
Last == patch_file[pc]

\* C2: from a view without dangling edges, a patch file applied with success
\* leaves a view in which every edge targets a Clip of the view.
NoDanglingEdges ==
    (result = "ok" /\ NoDangling(m_src0)) => NoDangling(m_src)

\* C3: an Add Clip on an id of the view fails, and the Clip stored under that
\* id is the one stored before.
AddNeverOverwrites ==
    (pc = 1 /\ Last.op = "add" /\ Last.anim.id \in DOMAIN m_prev.anims)
        => /\ result = "err"
           /\ m_src.anims[Last.anim.id] = m_prev.anims[Last.anim.id]

\* C4: a Delete Clip succeeds; it removes the matched Clips and, from the
\* Clips that remain, the edges to them, and changes nothing else.
CascadingDelete ==
    (pc >= 1 /\ Last.op = "delete")
        => LET deleted == collect_matching_ids(DOMAIN m_prev.anims, Last.id)
           IN /\ result # "err"
              /\ DOMAIN m_src.anims = (DOMAIN m_prev.anims) \ deleted
              /\ \A c \in DOMAIN m_src.anims :
                    /\ m_src.anims[c].path = m_prev.anims[c].path
                    /\ m_src.anims[c].index = m_prev.anims[c].index
                    /\ DOMAIN m_src.anims[c].trans
                          = (DOMAIN m_prev.anims[c].trans) \ deleted
                    /\ \A t \in DOMAIN m_src.anims[c].trans :
                          m_src.anims[c].trans[t] = m_prev.anims[c].trans[t]
              /\ m_src.model = m_prev.model
              /\ m_src.default_trans = m_prev.default_trans
              /\ m_src.layer_groups = m_prev.layer_groups

\* A Delete Clip removed a Clip and an edge to it, and left another edge.
CascadingDeleteSeen ==
    /\ pc >= 1
    /\ Last.op = "delete"
    /\ result # "err"
    /\ DOMAIN m_src.anims # DOMAIN m_prev.anims
    /\ \E c \in DOMAIN m_src.anims :
          /\ DOMAIN m_src.anims[c].trans # DOMAIN m_prev.anims[c].trans
          /\ DOMAIN m_src.anims[c].trans # {}

\* C7: from a view whose edges have ext exactly when their Kind is not a
\* Default* one, a patch file applied with success leaves such a view.
ExtPresenceKept ==
    (result = "ok" /\ ExtPresence(m_src0)) => ExtPresence(m_src)

\* An Update whose only nested instruction is an Add Edge.
IsAddEdge ==
    /\ pc = 1
    /\ Last.op = "update"
    /\ Last.trans # None
    /\ Len(Last.trans[1]) = 1
    /\ Last.trans[1][1].op = "add"

\* C8: an Add Edge on the Clips c that the Update selects, with T the Clips
\* its selector matches but c: it fails exactly when some c has an edge into
\* its T; when it succeeds each c has its old edges and one to each id of T
\* with the Kind and ext given; no Clip gets an edge to itself and no Clip
\* that is not selected changes.
AddEdgeFansOut ==
    IsAddEdge
        => LET add == Last.trans[1][1]
               ids == DOMAIN m_prev.anims
               selected == collect_matching_ids(ids, Last.id)
               T(c) == collect_matching_ids(ids, add.id) \ {c}
               old(c) == m_prev.anims[c].trans
               new(c) == m_src.anims[c].trans
           IN /\ DOMAIN m_src.anims = ids
              /\ (result = "err") <=> (\E c \in selected : T(c) \cap DOMAIN old(c) # {})
              /\ \A c \in ids : c \notin DOMAIN new(c)
              /\ \A c \in ids \ selected : m_src.anims[c] = m_prev.anims[c]
              /\ result # "err" =>
                    \A c \in selected :
                       /\ DOMAIN new(c) = (DOMAIN old(c)) \cup T(c)
                       /\ \A t \in DOMAIN old(c) : new(c)[t] = old(c)[t]
                       /\ \A t \in T(c) : new(c)[t] = [type_ |-> add.type_, ext |-> add.ext]

\* Fan-out: /.*/ selects every Clip of a view without edges and the Add Edge
\* targets Clip 10; the Clips 0 and 1 have one edge, to 10, and 10 has none.
AddEdgeFansOutSeen ==
    /\ IsAddEdge
    /\ result # "err"
    /\ Last.id = Regex(<<".*">>)
    /\ Last.trans[1][1].id = Other(10)
    /\ DOMAIN m_prev.anims = Ids
    /\ \A c \in Ids : DOMAIN m_prev.anims[c].trans = {}
    /\ \A c \in {0, 1} : DOMAIN m_src.anims[c].trans = {10}
    /\ DOMAIN m_src.anims[10].trans = {}

\* C9: the view a patch file leaves when applied with success is the
\* composition, first to last, of the effects of its instructions.
FileOrder ==
    result = "ok" => m_src \in Compose(m_src0, patch_file, Len(patch_file))

\* Clip 10 is added, then matched by /.*/ and made the target of an edge
\* from 1, and the edge 1 -> 0 added by the second instruction is deleted by
\* the third.
FileOrderSeen ==
    /\ result = "ok"
    /\ Len(patch_file) = 3
    /\ 10 \notin DOMAIN m_src0.anims
    /\ DOMAIN m_src0.anims[1].trans = {}
    /\ patch_file[1].op = "add"
    /\ patch_file[2] = UpdateAnimation(Regex(<<".*">>), Some(<<117>>), None,
                           Some(<<AddTransition(Regex(<<".*">>), EdgeBlend)>>))
    /\ patch_file[3] = UpdateAnimation(Other(1), Some(<<117>>), None,
                           Some(<<DeleteTransition(Other(0))>>))
    /\ DOMAIN m_src.anims[1].trans = {10}
    /\ DOMAIN m_src.anims[10].trans = {0, 1}
    /\ m_src.anims[10].path = <<117>>

\* C10: when instruction k fails apply returns the error: the view is the one
\* instructions 1..k-1 left, as far as the failed instruction k changed it,
\* and nothing is applied afterwards; apply returns Ok only when every
\* instruction was applied with success.
AbortWithoutRollback ==
    /\ [](result = "err" =>
            /\ pc >= 1
            /\ m_prev \in Compose(m_src0, patch_file, pc - 1)
            /\ m_src \in {o.m_src : o \in {x \in ApplyOne(m_prev, Last) : ~x.ok}})
    /\ [](result = "ok" =>
            /\ pc = Len(patch_file)
            /\ Compose(m_src0, patch_file, Len(patch_file)) # {})
    /\ [][result = "err" => UNCHANGED <<m_src, pc, result, match_vars, cmd_vars, wire_vars, yaml_vars>>]_vars

\* The second instruction failed, the first one's effect remains and the
\* third was not applied.
AbortSeen ==
    /\ result = "err"
    /\ pc = 2
    /\ Len(patch_file) = 3
    /\ m_prev # m_src0
    /\ m_src = m_prev

-----------------------------------------------------------------------------
(* SpecHeader: files with sound and with damaged headers through           *)
(* from_kfm_reader                                                         *)

HeaderBodies ==
    {b \in DiskBodies : b.layer_groups # << >> /\ b.anims \in SeqsUpTo(PlainAnimations, 1)}

\* version, magic, flag, and the body in the byte order given.
ImageIn(version, flag, b, le) ==
    <<version>> \o EXPECTED_MAGIC \o <<flag>> \o SourceFileBody_encode_kfm(b, le).out

\* Sound files: any version, flag 0 or 1, the body in the order of the flag.
SoundImages ==
    {ImageIn(version, flag, b, flag = 1) :
        version \in {0, 2, 255}, flag \in {0, 1}, b \in HeaderBodies}
\* The flag is neither 0 nor 1.
BadFlagImages ==
    {ImageIn(version, flag, b, le) :
        version \in {2}, flag \in {2, 255}, b \in HeaderBodies, le \in BOOLEAN}
\* The body is in the order the flag does not announce.
SwappedImages ==
    {ImageIn(version, flag, b, flag = 0) :
        version \in {2}, flag \in {0, 1}, b \in HeaderBodies}
\* One byte of the magic is another one (200 is not UTF-8 on its own).
FlippedImages ==
    {[img EXCEPT ![1 + i] = x] :
        img \in {ImageIn(2, flag, CHOOSE b \in HeaderBodies : TRUE, flag = 1) : flag \in {0, 1}},
        i \in 1..Len(EXPECTED_MAGIC), x \in {32, 200}} \ SoundImages
\* The input ends inside the header.
TruncatedImages ==
    {SubSeq(img, 1, n) :
        img \in {ImageIn(2, 1, CHOOSE b \in HeaderBodies : TRUE, TRUE)},
        n \in 0..(Len(EXPECTED_MAGIC) + 1)}

InitHeader ==
    /\ disk \in SoundImages \cup BadFlagImages \cup SwappedImages
                 \cup FlippedImages \cup TruncatedImages
    /\ src_file = None
    /\ written = Wrote(<< >>)
    /\ reread = Fail(<< >>)
    /\ cstage = "start"
    /\ TranOff
    /\ PatchOff
    /\ ViewOff
    /\ MatchOff
    /\ CmdOff
    /\ WireOff
    /\ YamlOff

SpecHeader == InitHeader /\ [][NextFile]_vars


-----------------------------------------------------------------------------
(* The patch command: on_patch of src/src/main.rs, with the handlers of     *)
(* main.rs.  on_add_anim, on_delete_anim, on_delete_tran and on_update_tran *)
(* of main.rs are the code of patch.rs; on_add_tran and on_update_anim are *)
(* not.                                                                    *)

\* todo!(): the thread panics, with the view as it is.
Todo(m) == [ok |-> FALSE, m_src |-> m, err |-> "not yet implemented"]

\* on_add_tran of main.rs: the owning Clip stays among the targets.
main_on_add_tran(m, parent_anim_id, add) ==
    IF parent_anim_id \notin DOMAIN m.anims THEN {Bail(m, "get parent anim")}
    ELSE AddTranLoop(m, parent_anim_id,
                     collect_matching_ids(DOMAIN m.anims, add.id), add)

RECURSIVE main_TranPatches(_, _, _, _)
main_TranPatches(m, update_id, trans, i) ==
    IF i > Len(trans) THEN {Done(m)}
    ELSE AndThen(
            CASE trans[i].op = "add" -> main_on_add_tran(m, update_id, trans[i])
              [] trans[i].op = "delete" -> on_delete_tran(m, update_id, trans[i])
              [] trans[i].op = "update" -> on_update_tran(m, update_id, trans[i]),
            LAMBDA m2 : main_TranPatches(m2, update_id, trans, i + 1))

\* One round of the loop of on_update_anim of main.rs.
main_UpdateOneAnim(m, update_id, update) ==
    IF update_id \notin DOMAIN m.anims THEN {Bail(m, "get anim")}
    ELSE The({IF update.trans = None THEN {Done(m2)}
              ELSE main_TranPatches(m2, update_id, update.trans[1], 1)
              : m2 \in {[m EXCEPT !.anims[update_id] =
                           [@ EXCEPT
                              !.path = IF update.path # None THEN update.path[1] ELSE @,
                              !.index = IF update.index # None THEN update.index[1] ELSE @]]}})

RECURSIVE main_UpdateAnimLoop(_, _, _)
main_UpdateAnimLoop(m, left, update) ==
    IF left = {} THEN {Done(m)}
    ELSE UNION {
        AndThen(main_UpdateOneAnim(m, update_id, update),
                LAMBDA m2 : main_UpdateAnimLoop(m2, left \ {update_id}, update))
        : update_id \in left}

\* on_update_anim of main.rs: after the loop comes todo!(), not Ok(()).
main_on_update_anim(m, update) ==
    AndThen(main_UpdateAnimLoop(m, collect_matching_ids(DOMAIN m.anims, update.id), update),
            LAMBDA m2 : {Todo(m2)})

MaxCmdPatchLen == 2   \* instructions of the patch file given to the command

\* The source files given to the command: two that load and index, one
\* whose two Clips have the same id, one whose byte-order flag is 2.
CmdBodies ==
    {SourceFileBody_from(View({0, 1}, {0, 1}, EdgeDefault)),
     SourceFileBody_from(View(Ids, Ids, EdgeBlend))}
CmdDuplicate ==
    The({[b EXCEPT !.anims = <<b.anims[1], b.anims[1]>>]
         : b \in {SourceFileBody_from(View({0, 1}, {}, EdgeDefault))}})
CmdImages ==
    {DiskImage(2, 1, b) : b \in CmdBodies \cup {CmdDuplicate}}
        \cup {DiskImage(2, 2, CmdDuplicate)}

\* The instructions of the patch files that load.
CmdPatchFiles == SeqsUpTo(FilePatches, MaxCmdPatchLen)

InitPatch ==
    /\ disk \in CmdImages
    /\ disk0 = disk
    /\ patch_disk = None
    /\ cmd = "load source"
    /\ src_file = None
    /\ written = Wrote(<< >>)
    /\ reread = Fail(<< >>)
    /\ cstage = "off"
    /\ PatchOff
    /\ TranOff
    /\ ViewOff
    /\ MatchOff
    /\ WireOff
    /\ YamlOff

\* SourceFile::load(&src_path) returns Ok.
LoadSource ==
    /\ cmd = "load source"
    /\ from_kfm_reader(disk).ok
    /\ src_file' = Some(from_kfm_reader(disk).val)
    /\ cmd' = "load patch"
    /\ UNCHANGED <<disk, written, reread, cstage, patch_vars, tran_vars, view_vars,
                   match_vars, patch_disk, disk0, wire_vars, yaml_vars>>

\* One of the steps before the loop returns Err: on_patch returns it.
Failed(stage, message) ==
    /\ cmd = stage
    /\ cmd' = "err"
    /\ error' = message
    /\ UNCHANGED <<codec_vars, m_src, m_src0, m_prev, patch_file, pc, result,
                   tran_vars, view_vars, match_vars, patch_disk, disk0, wire_vars, yaml_vars>>

LoadSourceFailed ==
    /\ cmd = "load source"
    /\ ~from_kfm_reader(disk).ok
    /\ Failed("load source", "load source file")

\* PatchFile::load(patch_path) returns Ok: the file at patch_path holds
\* the instructions anims.
LoadPatch ==
    /\ cmd = "load patch"
    /\ \E anims \in CmdPatchFiles :
          /\ patch_disk' = Some(anims)
          /\ patch_file' = anims
    /\ cmd' = "map"
    /\ UNCHANGED <<codec_vars, m_src, m_src0, m_prev, pc, result, error,
                   tran_vars, view_vars, match_vars, disk0, wire_vars, yaml_vars>>

\* PatchFile::load(patch_path) returns Err: the file does not open or does
\* not parse.
LoadPatchFailed ==
    Failed("load patch", "load patch file")

\* MappedSource::try_from(src_file.body) returns Ok.
MapSource ==
    /\ cmd = "map"
    /\ MappedSource_try_from(src_file[1].body).ok
    /\ m_src' = MappedSource_try_from(src_file[1].body).val
    /\ cmd' = "patch"
    /\ UNCHANGED <<codec_vars, m_src0, m_prev, patch_file, pc, result, error,
                   tran_vars, view_vars, match_vars, patch_disk, disk0, wire_vars, yaml_vars>>

MapSourceFailed ==
    /\ cmd = "map"
    /\ ~MappedSource_try_from(src_file[1].body).ok
    /\ Failed("map", "duplicate id")

\* The loop of on_patch has an instruction to take.
Patching ==
    /\ cmd = "patch"
    /\ pc < Len(patch_file)

\* A loop that goes on after an Err or a panic.
AfterHandler_ignore(o) == "patch"

\* Where on_patch is after a handler ended with o: `?` returns an Err, a
\* panic ends the process.
AfterHandler(o) ==
    IF o.ok THEN "patch" ELSE IF o = Todo(o.m_src) THEN "panic" ELSE "err"

\* The end of one round of the loop of on_patch.
PatchRound(o) ==
    /\ m_src' = o.m_src
    /\ pc' = pc + 1
    /\ error' = o.err
    /\ cmd' = AfterHandler(o)
    /\ UNCHANGED <<codec_vars, m_src0, m_prev, patch_file, result,
                   tran_vars, view_vars, match_vars, patch_disk, disk0, wire_vars, yaml_vars>>

PatchAdd ==
    /\ Patching
    /\ patch_file[pc + 1].op = "add"
    /\ \E o \in on_add_anim(m_src, patch_file[pc + 1].anim) : PatchRound(o)

PatchDelete ==
    /\ Patching
    /\ patch_file[pc + 1].op = "delete"
    /\ \E o \in on_delete_anim(m_src, patch_file[pc + 1]) : PatchRound(o)

PatchUpdate ==
    /\ Patching
    /\ patch_file[pc + 1].op = "update"
    /\ \E o \in main_on_update_anim(m_src, patch_file[pc + 1]) : PatchRound(o)

\* new_src_file.save(src_path): File::create empties the file, then
\* to_kfm_writer writes to it until it returns.
SaveSource ==
    /\ cmd = "patch"
    /\ pc = Len(patch_file)
    /\ written' = to_kfm_writer([header |-> src_file[1].header,
                                 body |-> SourceFileBody_from(m_src)])
    /\ disk' = written'.out
    /\ cstage' = "saved"
    /\ cmd' = IF written'.ok THEN "ok" ELSE "err"
    /\ UNCHANGED <<src_file, reread, patch_vars, tran_vars, view_vars,
                   match_vars, patch_disk, disk0, wire_vars, yaml_vars>>

NextOnPatch ==
    \/ LoadSource \/ LoadSourceFailed \/ LoadPatch \/ LoadPatchFailed
    \/ MapSource \/ MapSourceFailed
    \/ PatchAdd \/ PatchDelete \/ PatchUpdate \/ SaveSource

SpecPatch == InitPatch /\ [][NextOnPatch]_vars

-----------------------------------------------------------------------------
(* SpecWire: single values through their encoder, and byte sequences, whole *)
(* and cut short, through their decoder                                    *)

MaxStrLen == 2       \* bytes of a string handed to write_u32_len_str
MaxCode == 7         \* the codes 0..MaxCode are handed to the Kind decoder

\* NUL, "a", DEL, a lone continuation byte, and the two bytes of U+00E9.
WireBytes == {0, 97, 127, 128, 195, 169}

WireStrings == SeqsUpTo(WireBytes, MaxStrLen)

\* A length prefix of 0..MaxStrLen+1, of 2^31 or of 2^32 - 1, followed by up
\* to MaxStrLen bytes; and the prefixes that end before their fourth byte.
StrImages(le) ==
    {U32Bytes(n, le) \o p :
        n \in (0..(MaxStrLen + 1)) \cup {-2147483647 - 1, -1},
        p \in SeqsUpTo({97, 128, 195, 169}, MaxStrLen)}
      \cup {SubSeq(U32Bytes(1, le), 1, k) : k \in 0..3}

\* Kind codes as four bytes, and as fewer.
CodeImages(le) ==
    {U32Bytes(c, le) : c \in (0..MaxCode) \cup {255, 256, 65536, 16777216, -1}}
      \cup {SubSeq(U32Bytes(1, le), 1, k) : k \in 0..3}

WireDefaults ==
    [sync_type : Kinds, sync_duration : {1, 1048576000},
     non_sync_type : Kinds, non_sync_duration : {3, -1}]

\* A body with two Clips, the first with two edges, one of them with an
\* Extension of one Intermediate-Animation pair and one Chain-Animation step,
\* and a Layer Group of one Layer.
WireBody ==
    [model |-> DiskModel,
     default_trans |-> [sync_type |-> "Morph", sync_duration |-> 1048576000,
                        non_sync_type |-> "Blend", non_sync_duration |-> 3],
     anims |-> << [id |-> 0, path |-> <<97>>, index |-> 0,
                   trans |-> << [id |-> 1, type_ |-> "Blend", ext |-> Some(Ext2)],
                                [id |-> 2, type_ |-> "DefaultSync", ext |-> None] >>],
                  [id |-> 1, path |-> <<98, 99>>, index |-> 1, trans |-> << >>] >>,
     layer_groups |-> << [id |-> 2, name |-> <<103>>, layers |-> <<DiskLayer>>] >>]

\* The encoded body, and the encoded body without its last bytes.
BodyImages(le) ==
    The({{SubSeq(img, 1, n) : n \in 0..Len(img)}
         : img \in {SourceFileBody_encode_kfm(WireBody, le).out}})

InitWire ==
    /\ wire_le \in BOOLEAN
    /\ \/ wire_type = "str" /\ wire_in \in WireStrings
       \/ wire_type = "kind" /\ wire_in \in Kinds
       \/ wire_type = "defaults" /\ wire_in \in WireDefaults
       \/ wire_type = "bytes" /\ wire_in \in StrImages(wire_le)
       \/ wire_type = "code" /\ wire_in \in CodeImages(wire_le)
       \/ wire_type = "seq" /\ wire_in \in BodyImages(wire_le)
    /\ wire_out = Wrote(<< >>)
    /\ wire_back = Fail(<< >>)
    /\ wstage = "start"
    /\ CodecOff
    /\ TranOff
    /\ PatchOff
    /\ ViewOff
    /\ MatchOff
    /\ CmdOff
    /\ YamlOff

\* The encoder of wire_type has run on wire_in.
Encoded(type, out) ==
    /\ wstage = "start"
    /\ wire_type = type
    /\ wire_out' = out
    /\ wstage' = "encoded"
    /\ UNCHANGED <<wire_type, wire_in, wire_le, wire_back, codec_vars, tran_vars,
                   patch_vars, view_vars, match_vars, cmd_vars, yaml_vars>>

\* The decoder of what type made has run.
Decoded(type, back) ==
    /\ wstage = "encoded"
    /\ wire_type = type
    /\ wire_out.ok
    /\ wire_back' = back
    /\ wstage' = "decoded"
    /\ UNCHANGED <<wire_type, wire_in, wire_le, wire_out, codec_vars, tran_vars,
                   patch_vars, view_vars, match_vars, cmd_vars, yaml_vars>>

\* The decoder has run on the bytes wire_in.
DecodedBytes(type, back) ==
    /\ wstage = "start"
    /\ wire_type = type
    /\ wire_back' = back
    /\ wstage' = "decoded"
    /\ UNCHANGED <<wire_type, wire_in, wire_le, wire_out, codec_vars, tran_vars,
                   patch_vars, view_vars, match_vars, cmd_vars, yaml_vars>>

WriteStr == Encoded("str", write_u32_len_str(wire_in, wire_le))
ReadStr == Decoded("str", read_u32_len_str(wire_out.out, wire_le))
ReadStrBytes == DecodedBytes("bytes", read_u32_len_str(wire_in, wire_le))

EncodeKind == Encoded("kind", TransitionType_encode_kfm(wire_in, wire_le))
DecodeKind == Decoded("kind", TransitionType_decode_kfm(wire_out.out, wire_le))
DecodeCode == DecodedBytes("code", TransitionType_decode_kfm(wire_in, wire_le))

EncodeDefaults == Encoded("defaults", DefaultTransitions_encode_kfm(wire_in, wire_le))
DecodeDefaults == Decoded("defaults", DefaultTransitions_decode_kfm(wire_out.out, wire_le))

DecodeBody == DecodedBytes("seq", SourceFileBody_decode_kfm(wire_in, wire_le))

NextWire ==
    \/ WriteStr \/ ReadStr \/ ReadStrBytes
    \/ EncodeKind \/ DecodeKind \/ DecodeCode
    \/ EncodeDefaults \/ DecodeDefaults
    \/ DecodeBody

SpecWire == InitWire /\ [][NextWire]_vars

-----------------------------------------------------------------------------
(* Selectors in a patch file: src/src/regex_or.rs.  A text is a sequence   *)
(* of characters; a serde_yaml::Value is [kind |-> "String", s |-> text]   *)
(* or [kind |-> "Number", n |-> integer].  In SpecYaml the pattern of a     *)
(* Regex is its source text (Regex::as_str).                               *)

MaxPatternLen == 2   \* characters of a pattern that is serialized
MaxTextLen == 3      \* characters of a text value that is deserialized

YamlChars == {"/", "1", ".", "*", "("}

VString(s) == [kind |-> "String", s |-> s]
VNumber(n) == [kind |-> "Number", n |-> n]

Returned(v) == [status |-> "ok", val |-> <<v>>]
Refused == [status |-> "err", val |-> << >>]
Aborted == [status |-> "panic", val |-> << >>]

\* Regex::new on the characters of YamlChars: a group that is never closed
\* and a repetition of nothing are syntax errors.
Regex_new(s) ==
    IF (\E i \in 1..Len(s) : s[i] = "(") \/ (s # << >> /\ s[1] = "*")
    THEN Refused
    ELSE Returned(Regex(s))

\* &s[from..to]: panics when from > to or to is beyond the end.
Slice(s, from, to) ==
    IF from > to \/ to > Len(s) THEN Aborted
    ELSE Returned(SubSeq(s, from + 1, to))

starts_with(s, c) == s # << >> /\ s[1] = c
ends_with(s, c) == s # << >> /\ s[Len(s)] = c

\* u32::deserialize of a Value.
u32_deserialize(value) ==
    IF value.kind = "Number" /\ value.n >= 0 THEN Returned(value.n) ELSE Refused

\* A serializer that leaves the closing slash out.
RegexOr_serialize_open(sel) ==
    IF sel.kind = "Regex" THEN VString(<<"/">> \o sel.re) ELSE VNumber(sel.o)

RegexOr_serialize(sel) ==
    IF sel.kind = "Regex" THEN VString(<<"/">> \o sel.re \o <<"/">>)
    ELSE VNumber(sel.o)

RegexOr_deserialize(value) ==
    IF value.kind = "String" /\ starts_with(value.s, "/") /\ ends_with(value.s, "/")
    THEN LET re_substr == Slice(value.s, 1, Len(value.s) - 1)
         IN  IF re_substr.status = "panic" THEN Aborted
             ELSE Regex_new(re_substr.val[1])
    ELSE LET o == u32_deserialize(value)
         IN  IF o.status = "ok" THEN Returned(Other(o.val[1])) ELSE Refused

\* The patterns Regex::new accepts, and the ids.
YamlSelectors ==
    {Regex(re) : re \in {s \in SeqsUpTo(YamlChars, MaxPatternLen) : Regex_new(s).status = "ok"}}
      \cup {Other(o) : o \in {0, 1, 10, 2147483647}}

\* The scalar values a hand-written patch file can hold for an id.
YamlValues ==
    {VString(s) : s \in SeqsUpTo(YamlChars, MaxTextLen)}
      \cup {VNumber(n) : n \in {0, 7, -1}}

\* Either a selector of the program that is to be written, or a value of a
\* patch file that is to be read.
InitYaml ==
    /\ \/ /\ yaml_in \in {Some(sel) : sel \in YamlSelectors}
          /\ yaml_text = None
          /\ ystage = "value"
       \/ /\ yaml_in = None
          /\ yaml_text \in {Some(v) : v \in YamlValues}
          /\ ystage = "text"
    /\ yaml_back = None
    /\ CodecOff
    /\ TranOff
    /\ PatchOff
    /\ ViewOff
    /\ MatchOff
    /\ CmdOff
    /\ WireOff

Serialize ==
    /\ ystage = "value"
    /\ yaml_text' = Some(RegexOr_serialize(yaml_in[1]))
    /\ ystage' = "text"
    /\ UNCHANGED <<yaml_in, yaml_back, codec_vars, tran_vars, patch_vars,
                   view_vars, match_vars, cmd_vars, wire_vars>>

Deserialize ==
    /\ ystage = "text"
    /\ yaml_back' = Some(RegexOr_deserialize(yaml_text[1]))
    /\ ystage' = "decoded"
    /\ UNCHANGED <<yaml_in, yaml_text, codec_vars, tran_vars, patch_vars,
                   view_vars, match_vars, cmd_vars, wire_vars>>

NextYaml == Serialize \/ Deserialize

SpecYaml == InitYaml /\ [][NextYaml]_vars
-----------------------------------------------------------------------------
(* Properties of the single instructions                                   *)

\* An Update whose only nested instruction has the tag op.
IsNested(op) ==
    /\ pc = 1
    /\ Last.op = "update"
    /\ Last.trans # None
    /\ Len(Last.trans[1]) = 1
    /\ Last.trans[1][1].op = op

\* The Clip c after the Update Clip part of the last instruction.
Updated(c) ==
    [m_prev.anims[c] EXCEPT
        !.path = IF Last.path # None THEN Last.path[1] ELSE @,
        !.index = IF Last.index # None THEN Last.index[1] ELSE @]

\* C11: an Update Edge on the Clips the Update selects: of each, the edges
\* whose target matches take the Kind given, if one is given, and the ext
\* given, present or absent; the other edges and the other Clips are as before.
UpdateEdgeOverwritesExt ==
    IsNested("update")
        => LET update == Last.trans[1][1]
               ids == DOMAIN m_prev.anims
               selected == collect_matching_ids(ids, Last.id)
               old(c) == m_prev.anims[c].trans
               new(c) == m_src.anims[c].trans
               matched(c) == collect_matching_ids(DOMAIN old(c), update.id)
           IN /\ result # "err"
              /\ DOMAIN m_src.anims = ids
              /\ \A c \in ids \ selected : m_src.anims[c] = m_prev.anims[c]
              /\ \A c \in selected :
                    /\ DOMAIN new(c) = DOMAIN old(c)
                    /\ \A t \in (DOMAIN old(c)) \ matched(c) : new(c)[t] = old(c)[t]
                    /\ \A t \in matched(c) :
                          /\ new(c)[t].ext = update.ext
                          /\ new(c)[t].type_ = IF update.type_opt # None
                                               THEN update.type_opt[1]
                                               ELSE old(c)[t].type_

\* An Update Edge without Kind and ext matched a Blend edge that had an ext:
\* the edge is still Blend and has none.
UpdateEdgeClearsExt ==
    /\ IsNested("update")
    /\ Last.trans[1][1].type_opt = None
    /\ Last.trans[1][1].ext = None
    /\ \E c \in DOMAIN m_src.anims : \E t \in DOMAIN m_src.anims[c].trans :
          /\ m_prev.anims[c].trans[t] = EdgeBlend
          /\ m_src.anims[c].trans[t] = [type_ |-> "Blend", ext |-> None]
    /\ \E c \in DOMAIN m_src.anims : \E t \in DOMAIN m_src.anims[c].trans :
          m_src.anims[c].trans[t] = EdgeBlend

NoDuplicates(g) ==
    /\ \A i, j \in 1..Len(g.anims) : i # j => g.anims[i].id # g.anims[j].id
    /\ \A k \in 1..Len(g.anims) :
          \A i, j \in 1..Len(g.anims[k].trans) :
             i # j => g.anims[k].trans[i].id # g.anims[k].trans[j].id

\* Every Clip and every Edge of the Graph g is in the view m, as it is in g.
AllKept(g, m) ==
    /\ Cardinality(DOMAIN m.anims) = Len(g.anims)
    /\ \A k \in 1..Len(g.anims) :
          /\ g.anims[k].id \in DOMAIN m.anims
          /\ LET a == g.anims[k]
                 m_anim == m.anims[a.id]
             IN /\ m_anim.path = a.path
                /\ m_anim.index = a.index
                /\ Cardinality(DOMAIN m_anim.trans) = Len(a.trans)
                /\ \A i \in 1..Len(a.trans) :
                      /\ a.trans[i].id \in DOMAIN m_anim.trans
                      /\ m_anim.trans[a.trans[i].id]
                            = [type_ |-> a.trans[i].type_, ext |-> a.trans[i].ext]

\* C13: the conversion of a Graph to the Indexed View fails when two Clips
\* share an id or two Edges of a Clip share a target, and succeeds otherwise,
\* with every Clip and Edge of the Graph in the view.
DuplicatesRejected ==
    vstage \in {"mapped", "rejected"}
        => /\ mapped.ok <=> NoDuplicates(graph)
           /\ mapped.ok => AllKept(graph, mapped.val)
           /\ (vstage = "mapped") <=> mapped.ok

\* A Graph with two Clips of one id and different paths, and no Clip with two
\* Edges to one target, was rejected.
DuplicatesRejectedSeen ==
    /\ vstage = "rejected"
    /\ Len(graph.anims) = 2
    /\ graph.anims[1].id = graph.anims[2].id
    /\ graph.anims[1].path # graph.anims[2].path
    /\ \A k \in 1..2 : Len(graph.anims[k].trans) <= 1

\* The ids of the records of s are in strictly ascending u32 order.
StrictlyAscending(s) ==
    \A i \in 1..(Len(s) - 1) : U32Less(s[i].id, s[i + 1].id)

\* C14: the Graph made of an Indexed View, patched or not, has its Clips in
\* strictly ascending id order and the Edges of each Clip in strictly
\* ascending target order, so no id and no target of a Clip occurs twice.
UnmappedAscending ==
    unmapped # None
        => /\ StrictlyAscending(unmapped[1].anims)
           /\ \A k \in 1..Len(unmapped[1].anims) :
                 StrictlyAscending(unmapped[1].anims[k].trans)
           /\ NoDuplicates(unmapped[1])

\* A view that a patch file changed was converted to a Graph of three
\* Clips, one of them with two Edges.
UnmappedAscendingSeen ==
    /\ unmapped # None
    /\ result = "ok"
    /\ pc >= 1
    /\ m_src # m_src0
    /\ Len(unmapped[1].anims) = 3
    /\ \E k \in 1..3 : Len(unmapped[1].anims[k].trans) = 2
    /\ 10 \notin DOMAIN m_src0.anims

\* The Graphs g and u have the same Clips with the same Edges, in any order.
SameClips(g, u) ==
    /\ Len(u.anims) = Len(g.anims)
    /\ \A i \in 1..Len(g.anims) : \E j \in 1..Len(u.anims) :
          /\ u.anims[j].id = g.anims[i].id
          /\ u.anims[j].path = g.anims[i].path
          /\ u.anims[j].index = g.anims[i].index
          /\ Len(u.anims[j].trans) = Len(g.anims[i].trans)
          /\ \A k \in 1..Len(g.anims[i].trans) : \E l \in 1..Len(u.anims[j].trans) :
                u.anims[j].trans[l] = g.anims[i].trans[k]

\* The view that was converted to the Graph unmapped.
Unmapped == IF result = "off" THEN mapped.val ELSE m_src

\* C15: a Graph without duplicate ids converted to the Indexed View and back
\* has the same model, default transitions, layer groups, Clips and Edges,
\* and is the same Graph when its Clips and their Edges were in ascending
\* order; a view converted to a Graph and back is converted with success to
\* the same view.
ViewIsLossless ==
    /\ (vstage \in {"unmapped", "remapped"} /\ result = "off")
          => /\ unmapped[1].model = graph.model
             /\ unmapped[1].default_trans = graph.default_trans
             /\ unmapped[1].layer_groups = graph.layer_groups
             /\ SameClips(graph, unmapped[1])
             /\ (/\ StrictlyAscending(graph.anims)
                 /\ \A k \in 1..Len(graph.anims) : StrictlyAscending(graph.anims[k].trans))
                   => unmapped[1] = graph
    /\ vstage = "remapped"
          => /\ remapped.ok
             /\ remapped.val = Unmapped

\* A Graph with Clips 1 and 0 in this order, one with Edges to 1 and to 0 in
\* this order, one of them with an Extension, went to the view and back and
\* to the view again: the Graph that came back is another one.
ViewIsLosslessSeen ==
    /\ vstage = "remapped"
    /\ result = "off"
    /\ Len(graph.anims) = 2
    /\ graph.anims[1].id = 1
    /\ graph.anims[2].id = 0
    /\ \E k \in 1..2 :
          /\ Len(graph.anims[k].trans) = 2
          /\ graph.anims[k].trans[1].id = 1
          /\ graph.anims[k].trans[2].id = 0
          /\ graph.anims[k].trans[1].ext # None
    /\ unmapped[1] # graph

\* The bytes b begin with a version byte, the magic and a flag of 0 or 1.
HeaderSound(b) ==
    /\ Len(b) >= Len(EXPECTED_MAGIC) + 2
    /\ SubSeq(b, 2, Len(EXPECTED_MAGIC) + 1) = EXPECTED_MAGIC
    /\ b[Len(EXPECTED_MAGIC) + 2] \in {0, 1}

\* C16: a file is rejected, and no body is decoded, when a byte of its magic
\* is another one, when the byte after the magic is neither 0 nor 1, or when
\* it ends inside the header; every version byte is accepted, and the body
\* is decoded little-endian for flag 1 and big-endian for flag 0.
HeaderRejection ==
    /\ ~HeaderSound(disk) =>
          /\ ~decode_source_file_header(disk).ok
          /\ cstage \in {"start", "rejected"}
          /\ src_file = None
    /\ HeaderSound(disk) =>
          /\ decode_source_file_header(disk).ok
          /\ decode_source_file_header(disk).val
                = [version |-> disk[1],
                   is_little_endian |-> disk[Len(EXPECTED_MAGIC) + 2] = 1]
    /\ disk \in SoundImages => cstage # "rejected"
    /\ src_file # None =>
          /\ src_file[1].header.version = disk[1]
          /\ src_file[1].header.is_little_endian = (disk[Len(EXPECTED_MAGIC) + 2] = 1)
          /\ ImageIn(disk[1], disk[Len(EXPECTED_MAGIC) + 2], src_file[1].body,
                     disk[Len(EXPECTED_MAGIC) + 2] = 1) = disk

\* A file that differs from a sound one in one byte of the magic was
\* rejected.
HeaderRejectionSeen ==
    /\ cstage = "rejected"
    /\ Len(disk) > Len(EXPECTED_MAGIC) + 2
    /\ disk[Len(EXPECTED_MAGIC) + 2] \in {0, 1}
    /\ Cardinality({i \in 1..Len(EXPECTED_MAGIC) : disk[1 + i] # EXPECTED_MAGIC[i]}) = 1
    /\ [i \in 1..Len(disk) |-> IF i \in 2..(Len(EXPECTED_MAGIC) + 1)
                               THEN EXPECTED_MAGIC[i - 1] ELSE disk[i]] \in SoundImages

\* The messages of the failure branches that look up an id a selector
\* resolved to.
NotFound ==
    {"get anim", "get parent anim", "get tran", "anim did not have a tran"}

\* The last instruction is an Update whose only nested instruction, a
\* Delete Edge or an Update Edge, matches no edge of the Clips it selects.
NestedMatchesNothing ==
    /\ pc >= 1
    /\ Last.op = "update"
    /\ Last.trans # None
    /\ Len(Last.trans[1]) = 1
    /\ Last.trans[1][1].op \in {"delete", "update"}
    /\ \A c \in collect_matching_ids(DOMAIN m_prev.anims, Last.id) :
          collect_matching_ids(DOMAIN m_prev.anims[c].trans, Last.trans[1][1].id) = {}

\* C17: apply never returns one of the not-found errors; a Delete Clip or an
\* Update Clip that matches no Clip succeeds and changes nothing, and a
\* Delete Edge or Update Edge that matches no edge succeeds and changes no
\* edge.
NeverNotFound ==
    /\ error \notin NotFound
    /\ (/\ pc >= 1
        /\ Last.op \in {"delete", "update"}
        /\ collect_matching_ids(DOMAIN m_prev.anims, Last.id) = {})
          => /\ result # "err"
             /\ m_src = m_prev
    /\ NestedMatchesNothing
          => /\ result # "err"
             /\ DOMAIN m_src.anims = DOMAIN m_prev.anims
             /\ \A c \in DOMAIN m_src.anims : m_src.anims[c].trans = m_prev.anims[c].trans

\* After Clip 0 was deleted, an Update of Clips that have edges, with a
\* Delete Edge to Clip 0, matched no edge and succeeded.
NeverNotFoundSeen ==
    /\ NestedMatchesNothing
    /\ pc = 2
    /\ result # "err"
    /\ patch_file[1] = DeleteAnimation(Other(0))
    /\ Last.trans[1][1] = DeleteTransition(Other(0))
    /\ collect_matching_ids(DOMAIN m_prev.anims, Last.id) # {}
    /\ \E c \in DOMAIN m_src.anims : DOMAIN m_src.anims[c].trans # {}


\* C18: a Delete Edge on the Clips the Update selects: it succeeds, and of
\* each selected Clip the edges are the old ones without those whose target,
\* among the targets the Clip had, matches the selector; path and index are
\* what the Update Clip part leaves, the ids are as before and the Clips
\* that are not selected are unchanged.
DeleteEdgeRemovesMatched ==
    IsNested("delete")
        => LET delete == Last.trans[1][1]
               ids == DOMAIN m_prev.anims
               selected == collect_matching_ids(ids, Last.id)
               old(c) == m_prev.anims[c].trans
               matched(c) == collect_matching_ids(DOMAIN old(c), delete.id)
           IN /\ result # "err"
              /\ DOMAIN m_src.anims = ids
              /\ \A c \in ids \ selected : m_src.anims[c] = m_prev.anims[c]
              /\ \A c \in selected :
                    /\ m_src.anims[c].path = Updated(c).path
                    /\ m_src.anims[c].index = Updated(c).index
                    /\ m_src.anims[c].trans = Without(old(c), matched(c))

\* The Delete Edge of the test of apply: an Update of one Clip, without path
\* and index, deletes one of the Clip's two edges; the id it names is also a
\* Clip, which stays, and the Clip's other edge and the other Clips' edges
\* to the named id stay.
DeleteEdgeRemovesMatchedSeen ==
    /\ IsNested("delete")
    /\ result # "err"
    /\ Last.id = Other(1)
    /\ Last.path = None
    /\ Last.index = None
    /\ Last.trans[1][1].id = Other(0)
    /\ DOMAIN m_prev.anims = Ids
    /\ DOMAIN m_prev.anims[1].trans = {0, 10}
    /\ DOMAIN m_src.anims = Ids
    /\ DOMAIN m_src.anims[1].trans = {10}
    /\ m_src.anims[1].path = m_prev.anims[1].path
    /\ 0 \in DOMAIN m_src.anims[10].trans

-----------------------------------------------------------------------------
(* Selector resolution                                                     *)

\* The number of decimal digits of an id below 1000.
NumDigits(i) == IF i < 10 THEN 1 ELSE IF i < 100 THEN 2 ELSE 3

Pow10(k) == IF k = 0 THEN 1 ELSE IF k = 1 THEN 10 ELSE 100

\* The decimal text of an id below 1000, digit by digit.
DecimalText(i) ==
    [k \in 1..NumDigits(i) |-> Digit((i \div Pow10(NumDigits(i) - k)) % 10)]

HasDigit(i, d) == \E k \in 0..(NumDigits(i) - 1) : (i \div Pow10(k)) % 10 = d

\* The pattern p matches the text s somewhere: there are positions
\* cut[0] <= ... <= cut[Len(p)] in s between which each token of p takes its
\* part: a digit the one character equal to it, ".*" any characters, "^"
\* nothing at the start of s and "$" nothing at its end.
MatchesAnywhere(p, s) ==
    \E cut \in [0..Len(p) -> 1..(Len(s) + 1)] :
        \A i \in 1..Len(p) :
            CASE p[i] = "^" -> cut[i] = cut[i - 1] /\ cut[i] = 1
              [] p[i] = "$" -> cut[i] = cut[i - 1] /\ cut[i] = Len(s) + 1
              [] p[i] = ".*" -> cut[i] >= cut[i - 1]
              [] OTHER -> cut[i] = cut[i - 1] + 1 /\ s[cut[i - 1]] = p[i]

\* C19: collect_matching_ids returns a subset of the available ids: for a
\* literal selector the id itself if it is available and nothing otherwise,
\* for a pattern the available ids whose decimal text the pattern matches
\* somewhere; `.*` gives every available id and `1` every available id
\* with a digit 1.
ResolutionIsFilter ==
    mstage = "collected"
        => /\ matching \subseteq available
           /\ selector.kind = "Other"
                => matching = IF selector.o \in available THEN {selector.o} ELSE {}
           /\ selector.kind = "Regex"
                => matching = {i \in available : MatchesAnywhere(selector.re, DecimalText(i))}
           /\ selector = Regex(<<".*">>) => matching = available
           /\ selector = Regex(<<"1">>) => matching = {i \in available : HasDigit(i, 1)}

\* The pattern `1` took an id that starts with 1 and one that ends with 1
\* and left an id without a 1.
ResolutionIsFilterSeen ==
    /\ mstage = "collected"
    /\ selector = Regex(<<"1">>)
    /\ available = {2, 10, 21}
    /\ matching = {10, 21}

-----------------------------------------------------------------------------
(* The patch command                                                       *)

\* The source file has been created anew or holds other bytes than at the
\* start of the command.
Persisted == cstage = "saved" \/ disk # disk0

\* C20: the patch command writes the source file only when the source file
\* and the patch file were loaded, the view was built and every instruction
\* of the patch file was applied without an error; when the command ends
\* with an error or a panic before that, the file holds the bytes it held.
PersistOnlyAfterSuccess ==
    /\ Persisted
         => /\ src_file # None
            /\ patch_disk # None
            /\ patch_file = patch_disk[1]
            /\ MappedSource_try_from(src_file[1].body).ok
            /\ pc = Len(patch_file)
            /\ error = "none"
            /\ cmd \in {"ok", "err"}
    /\ (cmd \in {"err", "panic"} /\ error # "none") => ~Persisted
    /\ cmd \in {"load source", "load patch", "map", "patch"} => ~Persisted

\* The command ended with Ok after two instructions, and the file holds
\* other bytes than before.
PersistSeen ==
    /\ cmd = "ok"
    /\ cstage = "saved"
    /\ pc = 2
    /\ Len(patch_file) = 2
    /\ disk # disk0
    /\ from_kfm_reader(disk).ok

-----------------------------------------------------------------------------
(* Properties of the wire primitives (SpecWire)                            *)

\* The 4-byte unsigned integer n < 256 in the byte order le.
LenPrefix(n, le) == IF le THEN <<n, 0, 0, 0>> ELSE <<0, 0, 0, n>>

NonAscii(s) == \E i \in 1..Len(s) : s[i] > 127

\* C21: write_u32_len_str fails on a string with a non-ASCII character and
\* then has written no byte; for an ASCII string it writes the byte count as
\* four bytes in the chosen byte order, followed by exactly the string's bytes.
StrEncodingContract ==
    (wire_type = "str" /\ wstage # "start") =>
        IF NonAscii(wire_in)
        THEN ~wire_out.ok /\ wire_out.out = << >>
        ELSE /\ wire_out.ok
             /\ wire_out.out = LenPrefix(Len(wire_in), wire_le) \o wire_in

\* An ASCII character followed by a non-ASCII one was refused.
StrEncodingContractSeen ==
    /\ wire_type = "str"
    /\ wstage = "encoded"
    /\ wire_in = <<97, 195>>
    /\ ~wire_out.ok

\* The written ASCII string "a", DEL was read back.
AsciiStrWrittenSeen ==
    /\ wire_type = "str"
    /\ wstage = "decoded"
    /\ wire_in = <<97, 127>>
    /\ wire_back = Ok(wire_in, << >>)

\* The length the four bytes p declare, when it is below 256.
IsSmall(p, le) ==
    IF le THEN p[2] = 0 /\ p[3] = 0 /\ p[4] = 0
    ELSE p[1] = 0 /\ p[2] = 0 /\ p[3] = 0

SmallLen(p, le) == IF le THEN p[1] ELSE p[4]

\* What read_u32_len_str is to return on the bytes b: the declared number
\* of bytes when they follow and are UTF-8, a failure otherwise.
StrReadAsDeclared(b, le, back) ==
    IF Len(b) < 4 THEN ~back.ok
    ELSE LET p == SubSeq(b, 1, 4)
             payload == SubSeq(b, 5, Len(b))
         IN  IF IsSmall(p, le) /\ SmallLen(p, le) <= Len(payload)
             THEN LET s == SubSeq(payload, 1, SmallLen(p, le))
                  IN  IF from_utf8_ok(s)
                      THEN /\ back.ok
                           /\ back.val = s
                           /\ back.rest = SubSeq(payload, Len(s) + 1, Len(payload))
                      ELSE ~back.ok
             ELSE ~back.ok

\* C22: read_u32_len_str returns the string of exactly the declared number
\* of bytes when that many follow the prefix, and fails when the input ends
\* earlier; a body whose bytes end before the items its counts declare is
\* refused, never returned with shorter sequences.
TruncationRejected ==
    /\ (wire_type = "bytes" /\ wstage = "decoded") =>
           StrReadAsDeclared(wire_in, wire_le, wire_back)
    /\ (wire_type = "seq" /\ wstage = "decoded") =>
           /\ wire_back.ok <=>
                  wire_in = SourceFileBody_encode_kfm(WireBody, wire_le).out
           /\ wire_back.ok => wire_back.val = WireBody

\* Two bytes were declared and one followed: the read failed.
TruncationRejectedSeen ==
    /\ wire_type = "bytes"
    /\ wstage = "decoded"
    /\ wire_in = LenPrefix(2, wire_le) \o <<97>>
    /\ ~wire_back.ok

\* One byte was declared and two followed: the first one is the string.
DeclaredBytesReadSeen ==
    /\ wire_type = "bytes"
    /\ wstage = "decoded"
    /\ wire_in = LenPrefix(1, wire_le) \o <<97, 128>>
    /\ wire_back = Ok(<<97>>, <<128>>)

\* A body cut after its first Clip's first edge was refused.
CutBodyRejectedSeen ==
    /\ wire_type = "seq"
    /\ wstage = "decoded"
    /\ Len(wire_in) > 40
    /\ Len(wire_in) < Len(SourceFileBody_encode_kfm(WireBody, wire_le).out)
    /\ ~wire_back.ok

WholeBodyReadSeen ==
    /\ wire_type = "seq"
    /\ wstage = "decoded"
    /\ wire_back.ok

\* The Kinds in the order of their codes: KindOrder[c + 1] has code c.
KindOrder == <<"Blend", "Morph", "Crossfade", "ChainAnimation",
               "DefaultSync", "DefaultNonSync">>

CodeOf(k) == CHOOSE c \in 0..5 : KindOrder[c + 1] = k

\* C23: the six Kinds encode as the 4-byte codes 0..5 in the order Blend,
\* Morph, Crossfade, ChainAnimation, DefaultSync, DefaultNonSync; decoding
\* what a Kind encodes to returns that Kind, decoding a code in 0..5 returns
\* the Kind of that code, and decoding any other code fails.
KindCodes ==
    /\ (wire_type = "kind" /\ wstage # "start") =>
           wire_out = Wrote(LenPrefix(CodeOf(wire_in), wire_le))
    /\ (wire_type = "kind" /\ wstage = "decoded") =>
           wire_back = Ok(wire_in, << >>)
    /\ (wire_type = "code" /\ wstage = "decoded") =>
           IF /\ Len(wire_in) = 4
              /\ IsSmall(wire_in, wire_le)
              /\ SmallLen(wire_in, wire_le) <= 5
           THEN wire_back = Ok(KindOrder[SmallLen(wire_in, wire_le) + 1], << >>)
           ELSE ~wire_back.ok

\* The code 6 was refused.
KindCodesSeen ==
    /\ wire_type = "code"
    /\ wstage = "decoded"
    /\ wire_in = LenPrefix(6, wire_le)
    /\ ~wire_back.ok

\* DefaultNonSync was written as 5 and read back.
LastKindReadSeen ==
    /\ wire_type = "kind"
    /\ wstage = "decoded"
    /\ wire_in = "DefaultNonSync"
    /\ wire_out.out = LenPrefix(5, wire_le)
    /\ wire_back.ok

\* C24: Default-Transitions are written as sync Kind, non-sync Kind, sync
\* duration, non-sync duration, and reading what was written gives back
\* each field under its own name.
DefaultsWireOrder ==
    /\ (wire_type = "defaults" /\ wstage # "start") =>
           wire_out = Wrote(LenPrefix(CodeOf(wire_in.sync_type), wire_le)
                              \o LenPrefix(CodeOf(wire_in.non_sync_type), wire_le)
                              \o U32Bytes(wire_in.sync_duration, wire_le)
                              \o U32Bytes(wire_in.non_sync_duration, wire_le))
    /\ (wire_type = "defaults" /\ wstage = "decoded") =>
           /\ wire_back.ok
           /\ wire_back.rest = << >>
           /\ wire_back.val.sync_type = wire_in.sync_type
           /\ wire_back.val.non_sync_type = wire_in.non_sync_type
           /\ wire_back.val.sync_duration = wire_in.sync_duration
           /\ wire_back.val.non_sync_duration = wire_in.non_sync_duration

\* Settings whose two Kinds differ and whose two durations differ were read
\* back.
DefaultsWireOrderSeen ==
    /\ wire_type = "defaults"
    /\ wstage = "decoded"
    /\ wire_in.sync_type = "Morph"
    /\ wire_in.non_sync_type = "DefaultSync"
    /\ wire_in.sync_duration = 1048576000
    /\ wire_in.non_sync_duration = -1
    /\ wire_back.ok

-----------------------------------------------------------------------------
(* Properties of the selector's text form (SpecYaml)                       *)

\* C25: a regex selector serializes as its pattern between one leading and
\* one trailing slash and a literal selector as the bare id, and
\* deserializing the serialized form returns a selector of the same variant
\* with the same pattern or id.
SelectorRoundTrip ==
    /\ (yaml_in # None /\ ystage # "value") =>
           LET sel == yaml_in[1]
               text == yaml_text[1]
           IN  IF sel.kind = "Regex"
               THEN /\ text.kind = "String"
                    /\ Len(text.s) = Len(sel.re) + 2
                    /\ text.s[1] = "/"
                    /\ text.s[Len(text.s)] = "/"
                    /\ \A i \in 1..Len(sel.re) : text.s[i + 1] = sel.re[i]
               ELSE text = VNumber(sel.o)
    /\ (yaml_in # None /\ ystage = "decoded") =>
           yaml_back = Some(Returned(yaml_in[1]))

\* A pattern that itself starts with a slash came back.
SelectorRoundTripSeen ==
    /\ ystage = "decoded"
    /\ yaml_in = Some(Regex(<<"/", "1">>))
    /\ yaml_text = Some(VString(<<"/", "/", "1", "/">>))
    /\ yaml_back[1].status = "ok"

\* A literal id came back.
LiteralRoundTripSeen ==
    /\ ystage = "decoded"
    /\ yaml_in = Some(Other(10))
    /\ yaml_back = Some(Returned(Other(10)))

SlashDelimited(v) ==
    v.kind = "String" /\ v.s # << >> /\ v.s[1] = "/" /\ v.s[Len(v.s)] = "/"

\* C30: for every text value that starts and ends with a slash, the
\* one-character text "/" included, deserialization returns a regex
\* selector built from the characters strictly between the first and the
\* last character, or an error; it never aborts.
DeserializeIsTotal ==
    (ystage = "decoded" /\ SlashDelimited(yaml_text[1])) =>
        \/ yaml_back[1].status = "err"
        \/ /\ yaml_back[1].status = "ok"
           /\ yaml_back[1].val[1] =
                  Regex(SubSeq(yaml_text[1].s, 2, Len(yaml_text[1].s) - 1))

\* The text "//" was read as the empty pattern.
EmptyPatternReadSeen ==
    /\ ystage = "decoded"
    /\ yaml_text = Some(VString(<<"/", "/">>))
    /\ yaml_back = Some(Returned(Regex(<< >>)))

\* A slash-delimited text of two or more characters never aborts.
LongerTextIsTotal ==
    (ystage = "decoded" /\ SlashDelimited(yaml_text[1]) /\ Len(yaml_text[1].s) >= 2) =>
        \/ yaml_back[1].status = "err"
        \/ /\ yaml_back[1].status = "ok"
           /\ yaml_back[1].val[1] =
                  Regex(SubSeq(yaml_text[1].s, 2, Len(yaml_text[1].s) - 1))

-----------------------------------------------------------------------------
(* Properties of the patch engine (Spec, SpecOne, SpecPatch)               *)

\* C26: when an Add Edge fails because a selected Clip c already has an edge
\* to a target t its selector resolves to, c's edge to t has the Kind and
\* ext it had before the instruction.
FailedAddEdgeKeepsEdge ==
    (IsNested("add") /\ result = "err" /\ error = "anim already has tran")
        => LET add == Last.trans[1][1]
               ids == DOMAIN m_prev.anims
           IN  \A c \in collect_matching_ids(ids, Last.id) :
                   \A t \in (collect_matching_ids(ids, add.id) \ {c})
                                \cap DOMAIN m_prev.anims[c].trans :
                       m_src.anims[c].trans[t] = m_prev.anims[c].trans[t]

\* An Add Edge failed on an edge that was there.
AddEdgeConflictSeen ==
    /\ IsNested("add")
    /\ result = "err"
    /\ error = "anim already has tran"

\* C27: whether the instruction applied last succeeded, and the view it
\* left, are the same for every order in which the sets of matched Clips and
\* matched targets can be visited.
OutcomeIsOrderFree ==
    pc >= 1 =>
        \A o \in ApplyOne(m_prev, Last) :
            /\ o.ok = (result # "err")
            /\ o.m_src = m_src

\* Whether it succeeds is the same for every order, and so is the view a
\* success leaves.
SuccessIsOrderFree ==
    pc >= 1 =>
        \A o \in ApplyOne(m_prev, Last) :
            /\ o.ok = (result # "err")
            /\ o.ok => o.m_src = m_src

\* patch::apply from instruction i on: the handlers of patch.rs in turn,
\* up to the first Err.
RECURSIVE apply(_, _, _)
apply(m, file, i) ==
    IF i > Len(file) THEN {Done(m)}
    ELSE AndThen(ApplyOne(m, file[i]), LAMBDA m2 : apply(m2, file, i + 1))

\* The loop of on_patch is over: it ran out of instructions, returned the
\* Err of a handler, or panicked.
LoopEnded ==
    /\ cstage # "saved"
    /\ \/ cmd = "patch" /\ pc = Len(patch_file)
       \/ cmd \in {"err", "panic"} /\ pc >= 1

\* C28: the instruction loop of on_patch ends as patch::apply can end on the
\* same view and patch file: without a panic, with success exactly when
\* apply succeeds, and with the same view.
CommandAgreesWithLibrary ==
    LoopEnded =>
        /\ cmd # "panic"
        /\ \E o \in apply(MappedSource_try_from(src_file[1].body).val, patch_file, 1) :
              /\ o.ok = (cmd = "patch")
              /\ o.m_src = m_src

\* Without an Update instruction in the patch file the two agree.
AgreeWithoutUpdate ==
    (LoopEnded /\ \A i \in 1..Len(patch_file) : patch_file[i].op # "update") =>
        /\ cmd # "panic"
        /\ \E o \in apply(MappedSource_try_from(src_file[1].body).val, patch_file, 1) :
              /\ o.ok = (cmd = "patch")
              /\ o.m_src = m_src

\* Where on_patch panics, the view is one apply can return with Ok.
PanicOnlyDifference ==
    (LoopEnded /\ cmd = "panic") =>
        \E o \in apply(MappedSource_try_from(src_file[1].body).val,
                       SubSeq(patch_file, 1, pc), 1) :
              o.ok /\ o.m_src = m_src

\* C29: whether apply is running, has succeeded or has failed, the model
\* reference, the default-transition settings and the Layer Groups of the
\* view are those of the view apply was given.
OnlyClipsTouched ==
    /\ m_src.model = m_src0.model
    /\ m_src.default_trans = m_src0.default_trans
    /\ m_src.layer_groups = m_src0.layer_groups

\* apply failed after it had changed Clips.
OnlyClipsTouchedSeen ==
    /\ result = "err"
    /\ pc = Len(patch_file)
    /\ m_src.anims # m_src0.anims
    /\ m_src.layer_groups # << >>

\* apply succeeded with an Add, a Delete and an Update.
AllKindsAppliedSeen ==
    /\ result = "ok"
    /\ {patch_file[i].op : i \in 1..Len(patch_file)} = {"add", "delete", "update"}
    /\ m_src.anims # m_src0.anims
=============================================================================
